---------------------------- MODULE Spec2Model ----------------------------
(***************************************************************************)
(* Verification model of geniusrabbit/adsource-openrtb: the OpenRTB demand *)
(* source driver (driver.go) and its response normalizer                   *)
(* (adresponse/response_bid.go).                                           *)
(*                                                                         *)
(* Strings are sequences of tokens.  A token is an indivisible piece of    *)
(* text ("http://", "${AUCTION_PRICE}", ...); the alphabet is chosen so    *)
(* that no concatenation of tokens produces a literal the code searches    *)
(* for other than by containing its token.                                 *)
(***************************************************************************)
EXTENDS Integers, Sequences, FiniteSets, TLC

VARIABLES
    \* ---- driver (driver.go: type driver) ----
    clock,            \* fasttime.UnixTimestampNano(), in ticks
    lastRequestTime,  \* driver.lastRequestTime (atomic uint64)
    rpsCurrent,       \* driver.rpsCurrent (counter.Counter)
    errorCounter,     \* driver.errorCounter: calls of Inc and Dec
    latencyMetrics,   \* driver.latencyMetrics: calls of each Inc*/Begin/Update
    source,           \* driver.source (admodels.RTBSource), read-only
    requests,         \* the requests the engine may pass to Test and Bid
    replies,          \* the HTTP replies the partner may give
    procs,            \* the calling tasks of the engine
    budget,           \* Test calls the engine still issues
    pc,               \* position of each calling task
    loc,              \* locals of each calling task's current call
    hist,             \* returned Test calls, in order of return
    resets,           \* stores to lastRequestTime so far
    \* ---- normalizer applied to one decoded reply ----
    nIn,              \* [req, maxBid, bidResp]
    nStage,           \* position inside unmarshal
    nOut,             \* what unmarshal has produced so far
    \* ---- request builders applied to one request ----
    bIn,              \* [req, opts]
    bPos,             \* (impression, format) pairs each builder has visited
    bOut,             \* the wire impressions each builder has emitted
    \* ---- ProcessResponseItem applied to one response ----
    pIn,              \* [resp, driverID, winsFail]
    pPos,             \* ads of the response visited so far
    pLog              \* the sends made so far, in order

vars == << clock, lastRequestTime, rpsCurrent, errorCounter, latencyMetrics,
           source, requests, replies, procs, budget, pc, loc, hist,
           resets, nIn, nStage, nOut, bIn, bPos, bOut, pIn, pPos, pLog >>

driverVars == << clock, lastRequestTime, rpsCurrent, errorCounter,
                 latencyMetrics, source, requests, replies, procs, budget,
                 pc, loc, hist, resets >>

normVars == << nIn, nStage, nOut >>



pureVars == << nIn, nStage, nOut, bIn, bPos, bOut, pIn, pPos, pLog >>

---------------------------------------------------------------------------
(* Bounds of the model *)

NProcs       == 2      \* concurrent calling tasks
MaxCalls     == 3      \* Test calls of the concurrent tasks together
MaxSeqCalls  == 5      \* Test calls of a single task
MaxBidCalls  == 2      \* Test calls where the replies vary
MaxRPS       == 2      \* source.RPS is at most this
MaxTicks     == 2      \* clock ticks after the first reading
MaxItemPrice == 10     \* highest view price of an item, in money units
MaxLifeBids  == 2      \* bids of a reply whose response is released and reused
MaxPrepBids  == 2      \* bids of a reply where the bids' texts vary
MaxNum       == 100    \* numbers read back from JSON text are 0..MaxNum
MaxAds       == 2      \* ads of a response handed to ProcessResponseItem
MaxTotalBids == 3      \* bids in one enumerated reply
MaxPrice     == 3      \* bid prices are 1..MaxPrice
FilterMaxBid == 2      \* the positive value of source.MaxBid

---------------------------------------------------------------------------
(* Strings as token sequences *)

EmptyStr == << >>

Str(tok) == << tok >>

Contains(s, tok) == \E i \in 1..Len(s) : s[i] = tok

HasPrefix(s, tok) == Len(s) > 0 /\ s[1] = tok

\* Byte order of the tokens, for Go's ordering of strings.
Alphabet ==
    << "${AUCTION_AD_ID}", "${AUCTION_BID_ID}", "${AUCTION_CURRENCY}",
       "${AUCTION_ID}", "${AUCTION_IMP_ID}", "${AUCTION_PRICE}",
       "%24%7BAUCTION_PRICE%7D", "%zz", "</url>", "<?xml", "<a>", "<url>",
       "USD", "ad1", "bid1", "http://", "https://", "i1_b", "i2_d", "i3_n",
       "price", "r1", "x", "y", "{bare", "{native" >>

TokenRank(tok) ==
    IF \E i \in 1..Len(Alphabet) : Alphabet[i] = tok
    THEN CHOOSE i \in 1..Len(Alphabet) : Alphabet[i] = tok
    ELSE 0

RECURSIVE StrLess(_, _)
StrLess(a, b) ==
    IF Len(b) = 0 THEN FALSE
    ELSE IF Len(a) = 0 THEN TRUE
    ELSE IF a[1] = b[1] THEN StrLess(Tail(a), Tail(b))
    ELSE TokenRank(a[1]) < TokenRank(b[1])

StrMax2(a, b) == IF StrLess(a, b) THEN b ELSE a

---------------------------------------------------------------------------
(* Requests, impressions, formats (adtype.BidRequest, adtype.Impression,   *)
(* types.Format: the fields the driver and the normalizer read)            *)

Format(codename, kind) == [Codename |-> codename, Kind |-> kind]

Impression(id, direct, formats) ==
    [ID |-> id, Direct |-> direct, Width |-> 300, Height |-> 250,
     Formats |-> formats]

\* imp.IDByFormat(format): the per-format impression id, "<imp>_<fmt>".
IDByFormat(imp, format) == imp.ID \o "_" \o format.Codename

\* The impressions of a request: a banner one, a direct (pop) one, a
\* native one.
ReqImps ==
    << Impression("i1", FALSE, << Format("b", "banner") >>),
       Impression("i2", TRUE,  << Format("d", "direct") >>),
       Impression("i3", FALSE, << Format("n", "native") >>) >>

\* A request: Accept is the answer of source.Test(request), WireValid that
\* of Validate() on the wire request built from it.
Request(secure, accept, wireValid) ==
    [ID |-> "r1", Secure |-> secure, Imps |-> ReqImps, Accept |-> accept,
     WireValid |-> wireValid]

BidRequest(secure) == Request(secure, TRUE, TRUE)

NoImp == [ID |-> "", Direct |-> FALSE, Width |-> 0, Height |-> 0,
          Formats |-> << >>]

\* r.Req.ImpressionByIDvariation(id): the impression with that id or with
\* that per-format id; NoImp stands for nil.
ImpressionByIDvariation(req, id) ==
    LET hit(imp) == imp.ID = id
                    \/ \E k \in 1..Len(imp.Formats) :
                          IDByFormat(imp, imp.Formats[k]) = id
        idx == { i \in 1..Len(req.Imps) : hit(req.Imps[i]) }
    IN  IF idx = {} THEN NoImp
        ELSE req.Imps[CHOOSE i \in idx : \A k \in idx : i <= k]

NoFormat == [Codename |-> "", Kind |-> "none"]

\* imp.FormatByType(t): the first format of that type, or nil.
FormatByType(imp, kind) ==
    LET idx == { k \in 1..Len(imp.Formats) : imp.Formats[k].Kind = kind }
    IN  IF idx = {} THEN NoFormat
        ELSE imp.Formats[CHOOSE k \in idx : \A m \in idx : k <= m]

---------------------------------------------------------------------------
(* Wire bid response (openrtb.BidResponse, SeatBid, Bid)                   *)

\* The extension blob of a bid: JSON that decodes (Valid) to the three
\* fields customDirectURL reads, or JSON that does not decode.
BidExt(valid, url, landingpage, link) ==
    [Valid |-> valid, URL |-> url, LandingPage |-> landingpage,
     Link |-> link]

NoExt == BidExt(TRUE, EmptyStr, EmptyStr, EmptyStr)

\* An extension object that carries a landing URL.
DirectURLExt(url) == BidExt(TRUE, url, EmptyStr, EmptyStr)

MkBid(id, impid, price, adm, ext) ==
    [ID |-> id, ImpID |-> impid, Price |-> price, AdMarkup |-> adm,
     NURL |-> EmptyStr, BURL |-> EmptyStr, AdID |-> Str("ad1"),
     Ext |-> ext, W |-> 0, H |-> 0]

SeatBid(seat, bids) == [Seat |-> seat, Bid |-> bids, Group |-> 0]

WireResponse(seats) == [ID |-> Str("r1"), BidID |-> Str("bid1"),
                        SeatBid |-> seats]

\* The bids of a list of seats, as a set.
BidsOf(seats) ==
    UNION { { seats[s].Bid[j] : j \in 1..Len(seats[s].Bid) } :
            s \in 1..Len(seats) }

---------------------------------------------------------------------------
(* driver.unmarshal: the HTTPS check                                       *)

\* True when unmarshal returns ErrResponseAreNotSecure.
SecureViolation(req, seats) ==
    /\ req.Secure
    /\ \E bid \in BidsOf(seats) : Contains(bid.AdMarkup, "http://")

---------------------------------------------------------------------------
(* driver.unmarshal: the price-limit loop, with Go's slice semantics.      *)
(* A slice is a window (its length) onto a backing array.  `range`         *)
(* evaluates its operand once, so both loops run over the original length  *)
(* and read the backing array as the loop body has left it; append(s[:j],  *)
(* s[j+1:]...) shifts the backing array in place and s[j+1:] faults when   *)
(* j+1 exceeds the current length.                                         *)

\* append(s[:j0], s[j0+1:]...) on backing array arr of current length cl,
\* j being j0+1: the cells j..cl-1 take the values of the cells j+1..cl.
RemoveAt(arr, cl, j) ==
    [k \in 1..Len(arr) |-> IF k >= j /\ k <= cl - 1 THEN arr[k + 1] ELSE arr[k]]

\* s[j0+1:] faults (slice bounds out of range) when j0+1 > len(s).
SliceFaults(cl, j) == j > cl

\* The inner loop `for j, bid := range seat.Bid` from iteration j on: arr is
\* the backing array of the seat's bids, m the length the range took, cl the
\* current length of seat.Bid.
RECURSIVE FilterBids(_, _, _, _, _, _)
FilterBids(arr, m, cl, j, changed, maxBid) ==
    IF j > m THEN [arr |-> arr, len |-> cl, changed |-> changed, panic |-> FALSE]
    ELSE IF arr[j].Price > maxBid
    THEN IF SliceFaults(cl, j)
         THEN [arr |-> arr, len |-> cl, changed |-> changed, panic |-> TRUE]
         ELSE FilterBids(RemoveAt(arr, cl, j), m, cl - 1, j + 1, TRUE, maxBid)
    ELSE FilterBids(arr, m, cl, j + 1, changed, maxBid)

\* The outer loop `for i, seat := range bidResp.SeatBid` from iteration i
\* on.  hdr is the backing array of seat headers ([ref, len, ...]: ref
\* names the backing array of the seat's bids in heap), n the length the
\* range took, cl the current length of bidResp.SeatBid.
RECURSIVE FilterSeats(_, _, _, _, _, _)
FilterSeats(hdr, heap, n, cl, i, maxBid) ==
    IF i > n THEN [hdr |-> hdr, heap |-> heap, len |-> cl, panic |-> FALSE]
    ELSE
      LET seat  == hdr[i]
          inner == FilterBids(heap[seat.ref], seat.len, seat.len, 1, FALSE, maxBid)
          heap2 == [heap EXCEPT ![seat.ref] = inner.arr]
      IN  IF inner.panic
          THEN [hdr |-> hdr, heap |-> heap2, len |-> cl, panic |-> TRUE]
          ELSE IF ~inner.changed
          THEN FilterSeats(hdr, heap2, n, cl, i + 1, maxBid)
          ELSE IF inner.len = 0
          THEN \* bidResp.SeatBid = append(bidResp.SeatBid[:i], bidResp.SeatBid[i+1:]...)
               IF SliceFaults(cl, i)
               THEN [hdr |-> hdr, heap |-> heap2, len |-> cl, panic |-> TRUE]
               ELSE FilterSeats(RemoveAt(hdr, cl, i), heap2, n, cl - 1, i + 1, maxBid)
          ELSE \* bidResp.SeatBid[i] = seat  (index out of range when i >= len)
               IF i > cl
               THEN [hdr |-> hdr, heap |-> heap2, len |-> cl, panic |-> TRUE]
               ELSE FilterSeats([hdr EXCEPT ![i] = [seat EXCEPT !.len = inner.len]],
                                heap2, n, cl, i + 1, maxBid)

\* `if d.source.MaxBid > 0 { ... }`: the seats left in bidResp.SeatBid, or
\* a run-time fault.
MaxBidFilter(seats, maxBid) ==
    IF maxBid > 0
    THEN LET hdr0  == [r \in 1..Len(seats) |->
                         [ref |-> r, len |-> Len(seats[r].Bid),
                          Seat |-> seats[r].Seat, Group |-> seats[r].Group]]
             heap0 == [r \in 1..Len(seats) |-> seats[r].Bid]
             res   == FilterSeats(hdr0, heap0, Len(seats), Len(seats), 1, maxBid)
         IN  [panic |-> res.panic,
              SeatBid |->
                 [k \in 1..res.len |->
                    [Seat |-> res.hdr[k].Seat,
                     Bid |-> SubSeq(res.heap[res.hdr[k].ref], 1, res.hdr[k].len),
                     Group |-> res.hdr[k].Group]]]
    ELSE [panic |-> FALSE, SeatBid |-> seats]

---------------------------------------------------------------------------
(* adresponse helpers                                                      *)

StrMax3(a, b, c) == StrMax2(StrMax2(a, b), c)

\* customDirectURL: Go's built-in max over the three strings of the decoded
\* extension; the empty string when the extension does not decode.
customDirectURL(ext) ==
    IF ext.Valid THEN StrMax3(ext.URL, ext.LandingPage, ext.Link) ELSE EmptyStr

FirstIndex(s, tok) ==
    IF Contains(s, tok)
    THEN CHOOSE i \in 1..Len(s) : s[i] = tok /\ \A k \in 1..(i - 1) : s[k] # tok
    ELSE 0

\* decodePopMarkup: the text of popunderAd>url, empty when the XML has no
\* such element or does not parse.
decodePopMarkup(adm) ==
    LET a == FirstIndex(adm, "<url>")
        b == FirstIndex(adm, "</url>")
    IN  IF a > 0 /\ b > a THEN SubSeq(adm, a + 1, b - 1) ELSE EmptyStr

\* bannerFormatType: "proxy" for a URL or an iframe, else "banner".
bannerFormatType(adm) ==
    IF \/ HasPrefix(adm, "http://")
       \/ HasPrefix(adm, "https://")
       \/ HasPrefix(adm, "//")
       \/ Contains(adm, "<iframe")
    THEN "proxy" ELSE "banner"

\* fmt.Sprintf("%.6f", bid.Price)
FormatPrice(price) == Str(ToString(price) \o ".000000")

\* The value newBidReplacer pairs with a macro; a token that is no macro
\* stands for itself.
MacroValue(tok, bid, r) ==
    CASE tok = "${AUCTION_AD_ID}"    -> bid.AdID
      [] tok = "${AUCTION_ID}"       -> r.ID
      [] tok = "${AUCTION_BID_ID}"   -> r.BidID
      [] tok = "${AUCTION_IMP_ID}"   -> Str(bid.ImpID)
      [] tok = "${AUCTION_PRICE}"    -> FormatPrice(bid.Price)
      [] tok = "${AUCTION_CURRENCY}" -> Str("USD")
      [] OTHER                       -> Str(tok)

\* replacer.Replace(s): one left-to-right pass, replaced text is not
\* scanned again.
RECURSIVE Replace(_, _, _)
Replace(s, bid, r) ==
    IF Len(s) = 0 THEN EmptyStr
    ELSE MacroValue(s[1], bid, r) \o Replace(Tail(s), bid, r)

\* url.QueryUnescape: an invalid escape is an error (the text is kept),
\* otherwise every escape is decoded.
QueryUnescape(s) ==
    IF Contains(s, "%zz") THEN s
    ELSE [i \in 1..Len(s) |->
            IF s[i] = "%24%7BAUCTION_PRICE%7D" THEN "${AUCTION_PRICE}" ELSE s[i]]

prepareURL(surl, bid, r) ==
    IF surl = EmptyStr THEN surl ELSE Replace(QueryUnescape(surl), bid, r)

\* decodeNativeMarkup: markup that is a JSON object decodes (wrapped in
\* "native" or bare), anything else is an error.  The tokens after the
\* opening one are the link URL of the native response.
NativeDecodes(adm) == HasPrefix(adm, "{native") \/ HasPrefix(adm, "{bare")

NativeLinkURL(adm) == Tail(adm)

---------------------------------------------------------------------------
(* adresponse.BidResponse                                                  *)

\* &adresponse.BidResponse{Src: d, Req: request, BidResponse: bidResp}
NewBidResponse(req, wire, seats) ==
    [Req |-> req, ID |-> wire.ID, BidID |-> wire.BidID, SeatBid |-> seats,
     bidRespBidCount |-> 0, optimalBids |-> << >>, ads |-> << >>]

\* The first loop body of Prepare, for one bid.
PrepareBid(bid, r) ==
    LET imp  == ImpressionByIDvariation(r.Req, bid.ImpID)
        b1   == IF imp # NoImp /\ bid.W = 0 /\ bid.H = 0
                THEN [bid EXCEPT !.W = imp.Width, !.H = imp.Height]
                ELSE bid
        adm1 == IF imp # NoImp /\ imp.Direct /\ b1.AdMarkup = EmptyStr
                THEN customDirectURL(b1.Ext) ELSE b1.AdMarkup
        adm2 == IF imp # NoImp /\ imp.Direct /\ HasPrefix(adm1, "<?xml")
                THEN decodePopMarkup(adm1) ELSE adm1
        b2   == [b1 EXCEPT !.AdMarkup = adm2]
    IN  [b2 EXCEPT !.AdMarkup = Replace(b2.AdMarkup, b2, r),
                   !.NURL     = prepareURL(b2.NURL, b2, r),
                   !.BURL     = prepareURL(b2.BURL, b2, r)]

\* The bids of all seats in seat order, then bid order.
RECURSIVE FlatBids(_)
FlatBids(seats) ==
    IF Len(seats) = 0 THEN << >>
    ELSE seats[1].Bid \o FlatBids(Tail(seats))

\* The map OptimalBids builds after the first k bids: an entry is replaced
\* only by a bid of strictly higher price.
\* OptimalMap with the comparison `<=`: among equal prices the last wins.
RECURSIVE OptimalMap_LastWins(_, _)
OptimalMap_LastWins(flat, k) ==
    IF k = 0 THEN << >>
    ELSE LET prev == OptimalMap_LastWins(flat, k - 1)
             bid  == flat[k]
             seen == { i \in 1..Len(prev) : prev[i].ImpID = bid.ImpID }
         IN  IF seen = {} THEN Append(prev, bid)
             ELSE LET i == CHOOSE x \in seen : TRUE
                  IN  IF prev[i].Price <= bid.Price
                      THEN [prev EXCEPT ![i] = bid] ELSE prev

RECURSIVE OptimalMap(_, _)
OptimalMap(flat, k) ==
    IF k = 0 THEN << >>
    ELSE LET prev == OptimalMap(flat, k - 1)
             bid  == flat[k]
             seen == { i \in 1..Len(prev) : prev[i].ImpID = bid.ImpID }
         IN  IF seen = {} THEN Append(prev, bid)
             ELSE LET i == CHOOSE x \in seen : TRUE
                  IN  IF prev[i].Price < bid.Price
                      THEN [prev EXCEPT ![i] = bid] ELSE prev

\* Permutations of 1..n: the orders in which Go may range over a map.
Perms(n) == { f \in [1..n -> 1..n] : \A i, j \in 1..n : i # j => f[i] # f[j] }

\* OptimalBids: the cached list when there is one, else the map's values
\* in the order perm the map iteration takes.
OptimalBids(r, perm) ==
    IF Len(r.optimalBids) > 0 THEN r.optimalBids
    ELSE LET m == OptimalMap(FlatBids(r.SeatBid), Len(FlatBids(r.SeatBid)))
         IN  [i \in 1..Len(m) |-> m[perm[i]]]

NoItem == [ItemID |-> ""]

\* `Src: r.Src`: the driver that built the response, with the percent its
\* PriceCorrectionReduceFactor() takes off a price.
DriverSrc == [ID |-> 1, ReducePercent |-> 10]

\* `bid.Price / 1000`: the wire price is per thousand views.
PerMille == 1000

\* Money is a fixed-point number with this many units to one.
MoneyScale == 1000

\* billing.MoneyFloat of the float num/den.
MoneyFloat(num, den) == (num * MoneyScale) \div den

\* price.CalculateNewBidPrice(price, item): the price less the correction
\* of the item's source.
CalculateNewBidPrice(price, item) ==
    IF price <= 0 THEN 0
    ELSE price - (price * item.Src.ReducePercent) \div 100

NoPriceScope == [MaxBidPrice |-> 0, BidPrice |-> 0, ViewPrice |-> 0, ECPM |-> 0]

\* The price scope prepareBidItem gives a built item.
PriceScopeView(bid, item) ==
    [MaxBidPrice |-> CalculateNewBidPrice(MoneyFloat(bid.Price, PerMille), item),
     BidPrice    |-> CalculateNewBidPrice(MoneyFloat(bid.Price, PerMille), item),
     ViewPrice   |-> MoneyFloat(bid.Price, PerMille),
     ECPM        |-> MoneyFloat(bid.Price, 1)]

\* The price scope the inline variant of Prepare gives a built item.
PriceScopeInline(bid) ==
    [MaxBidPrice |-> MoneyFloat(bid.Price, 1),
     BidPrice    |-> MoneyFloat(bid.Price, 1),
     ViewPrice   |-> MoneyFloat(bid.Price, 1),
     ECPM        |-> MoneyFloat(bid.Price, 1)]

\* prepareBidItem: the ad item of an optimal bid, NoItem for nil.
prepareBidItem(bid, imp) ==
    LET byID   == { k \in 1..Len(imp.Formats) :
                      IDByFormat(imp, imp.Formats[k]) = bid.ImpID }
        format == IF imp.Direct THEN FormatByType(imp, "direct")
                  ELSE IF byID = {} THEN NoFormat
                  ELSE imp.Formats[CHOOSE k \in byID : \A m \in byID : k <= m]
        item(ft, link) ==
            [ItemID |-> imp.ID, Src |-> DriverSrc, Imp |-> imp.ID, Bid |-> bid,
             FormatType |-> ft, RespFormat |-> format, ActionLink |-> link,
             PriceScope |-> NoPriceScope]
        Priced(it) ==
            IF it = NoItem THEN NoItem
            ELSE [it EXCEPT !.PriceScope = PriceScopeView(bid, it)]
    IN  Priced(CASE format = NoFormat -> NoItem
                 [] format.Kind = "direct" -> item("direct", bid.AdMarkup)
                 [] format.Kind = "native" ->
                       IF NativeDecodes(bid.AdMarkup)
                       THEN item("native", NativeLinkURL(bid.AdMarkup))
                       ELSE NoItem
                 [] format.Kind \in {"banner", "proxy"} ->
                       item(bannerFormatType(bid.AdMarkup), EmptyStr)
                 [] OTHER -> NoItem)

\* The item the inline variant of Prepare builds for an optimal bid: the
\* direct format of a direct impression, else the first format whose
\* per-format id is the bid's; NoItem when it appends nothing.
InlineBidItem(bid, imp) ==
    LET byID   == { k \in 1..Len(imp.Formats) :
                      IDByFormat(imp, imp.Formats[k]) = bid.ImpID }
        format == IF imp.Direct THEN FormatByType(imp, "direct")
                  ELSE IF byID = {} THEN NoFormat
                  ELSE imp.Formats[CHOOSE k \in byID : \A m \in byID : k <= m]
        item(ft, link) ==
            [ItemID |-> imp.ID, Src |-> DriverSrc, Imp |-> imp.ID, Bid |-> bid,
             FormatType |-> ft, RespFormat |-> format, ActionLink |-> link,
             PriceScope |-> PriceScopeInline(bid)]
    IN  CASE format = NoFormat -> NoItem
          [] imp.Direct -> item("direct", bid.AdMarkup)
          [] format.Kind = "native" ->
                IF NativeDecodes(bid.AdMarkup)
                THEN item("native", NativeLinkURL(bid.AdMarkup))
                ELSE NoItem
          [] format.Kind \in {"banner", "proxy"} ->
                item(bannerFormatType(bid.AdMarkup), EmptyStr)
          [] OTHER -> NoItem

\* The second loop of the inline variant of Prepare from optimal bid k on.
RECURSIVE AppendAdsInline(_, _, _, _)
AppendAdsInline(ads, req, opt, k) ==
    IF k > Len(opt) THEN ads
    ELSE LET Next1(item) ==
                 AppendAdsInline(IF item = NoItem THEN ads ELSE Append(ads, item),
                                 req, opt, k + 1)
             ItemOf(imp) ==
                 IF imp = NoImp THEN NoItem ELSE InlineBidItem(opt[k], imp)
         IN  Next1(ItemOf(ImpressionByIDvariation(req, opt[k].ImpID)))

\* The second loop of Prepare from optimal bid k on.
\* The second loop of Prepare when a bid without an item ends the loop.
RECURSIVE AppendAds_StopOnNil(_, _, _, _)
AppendAds_StopOnNil(ads, req, opt, k) ==
    IF k > Len(opt) THEN ads
    ELSE LET imp  == ImpressionByIDvariation(req, opt[k].ImpID)
             item == IF imp = NoImp THEN NoItem ELSE prepareBidItem(opt[k], imp)
         IN  IF item = NoItem THEN ads
             ELSE AppendAds_StopOnNil(Append(ads, item), req, opt, k + 1)

RECURSIVE AppendAds(_, _, _, _)
AppendAds(ads, req, opt, k) ==
    IF k > Len(opt) THEN ads
    ELSE LET imp  == ImpressionByIDvariation(req, opt[k].ImpID)
             item == IF imp = NoImp THEN NoItem ELSE prepareBidItem(opt[k], imp)
         IN  AppendAds(IF item = NoItem THEN ads ELSE Append(ads, item),
                       req, opt, k + 1)

\* BidResponse.Prepare
Prepare(r, perm) ==
    LET seats == [s \in 1..Len(r.SeatBid) |->
                    [r.SeatBid[s] EXCEPT !.Bid =
                        [j \in 1..Len(r.SeatBid[s].Bid) |->
                            PrepareBid(r.SeatBid[s].Bid[j], r)]]]
        r1    == [r EXCEPT !.SeatBid = seats,
                           !.bidRespBidCount = Len(FlatBids(seats))]
        opt   == OptimalBids(r1, perm)
    IN  [r1 EXCEPT !.optimalBids = opt,
                   !.ads = AppendAds(r1.ads, r1.Req, opt, 1)]

\* BidResponse.Prepare, the variant that builds the items inline.
PrepareInline(r, perm) ==
    LET seats == [s \in 1..Len(r.SeatBid) |->
                    [r.SeatBid[s] EXCEPT !.Bid =
                        [j \in 1..Len(r.SeatBid[s].Bid) |->
                            PrepareBid(r.SeatBid[s].Bid[j], r)]]]
        r1    == [r EXCEPT !.SeatBid = seats,
                           !.bidRespBidCount = Len(FlatBids(seats))]
        opt   == OptimalBids(r1, perm)
    IN  [r1 EXCEPT !.optimalBids = opt,
                   !.ads = AppendAdsInline(r1.ads, r1.Req, opt, 1)]

---------------------------------------------------------------------------
(* driver.unmarshal                                                        *)

\* The error of the decoding switch, "" for none.  A body is well-formed
\* JSON ("json"), one JSON value followed by more text ("json+trailing":
\* json.Decoder stops after the value, json.Unmarshal does not accept it),
\* or no JSON ("malformed").
DecodeError(src, body) ==
    CASE src.RequestType = "json" ->
            IF src.Options.Trace # 0
            THEN IF body.Shape = "json" THEN "" ELSE "ErrJSON"
            ELSE IF body.Shape \in {"json", "json+trailing"} THEN "" ELSE "ErrJSON"
      [] src.RequestType \in {"xml", "protobuff"} -> "ErrNotSupported"
      [] OTHER -> "ErrUndefinedRequestType"

NoResp == << >>

\* unmarshal(request, body): kind "resp" with the prepared response, "nil"
\* for (nil, nil), "err" for (nil, err), "panic" for a run-time fault.
unmarshal(req, src, body, perm) ==
    LET derr == DecodeError(src, body) IN
    IF derr # "" THEN [kind |-> "err", err |-> derr, resp |-> NoResp]
    ELSE IF SecureViolation(req, body.Wire.SeatBid)
    THEN [kind |-> "err", err |-> "ErrResponseAreNotSecure", resp |-> NoResp]
    ELSE LET Filtered(f) ==
                 IF f.panic THEN [kind |-> "panic", err |-> "", resp |-> NoResp]
                 ELSE IF Len(f.SeatBid) = 0
                 THEN [kind |-> "nil", err |-> "", resp |-> NoResp]
                 ELSE [kind |-> "resp", err |-> "",
                       resp |-> Prepare(NewBidResponse(req, body.Wire, f.SeatBid), perm)]
         IN  Filtered(MaxBidFilter(body.Wire.SeatBid, src.MaxBid))

\* The number of entries of the map OptimalBids builds over these seats.
OptimalCount(seats) == Len(OptimalMap(FlatBids(seats), Len(FlatBids(seats))))

---------------------------------------------------------------------------
(* The normalizer on enumerated replies: unmarshal after the decoding      *)
(* switch, one step per stage.                                             *)

NormImpIDs == {"i1_b", "i2_d"}

SafeMarkup     == << "<a>", "https://", "x" >>
InsecureMarkup == << "<a>", "http://", "x" >>

\* The seats of a flat list of bids: cuts[k] says that bid k opens a seat.
RECURSIVE SeatsOf(_, _, _)
SeatsOf(flat, cuts, k) ==
    IF k = 0 THEN << >>
    ELSE LET prev == SeatsOf(flat, cuts, k - 1)
         IN  IF cuts[k] \/ k = 1
             THEN Append(prev, SeatBid(Len(prev) + 1, << flat[k] >>))
             ELSE [prev EXCEPT ![Len(prev)].Bid = Append(@, flat[k])]

---------------------------------------------------------------------------
(* The driver: data                                                        *)

\* time.Second in clock ticks (a tick is half a second).
Second == 2

\* now - atomic.LoadUint64(&d.lastRequestTime) in unsigned arithmetic (the
\* width is cut from 64 to 16 bits).
Elapsed(now, last) == (now - last) % (2 ^ 16)

\* An HTTP reply of netClient.Do: a transport error (with or without a
\* response object) or a response with a status and a body.
Reply(err, hasResp, status, body) ==
    [Err |-> err, HasResp |-> hasResp, Status |-> status, Body |-> body]

Body(shape, seats) == [Shape |-> shape, Wire |-> WireResponse(seats)]

NoBody == Body("malformed", << >>)

NoReply == Reply("", FALSE, 0, NoBody)

\* adtype.NewErrorResponse(request, err)
NewErrorResponse(req, err) ==
    [kind |-> "error", req |-> req.ID, err |-> err, ads |-> << >>, bid |-> NoResp]

\* bidresponse.NewEmptyResponse(request, d, err)
NewEmptyResponse(req, err) ==
    [kind |-> "empty", req |-> req.ID, err |-> err, ads |-> << >>, bid |-> NoResp]

\* BidResponse.Validate: the structural check of the wire response, then
\* the group flag of every seat.
Validate(r) ==
    IF r.ID = EmptyStr THEN "ErrInvalidRespNoID"
    ELSE IF Len(r.SeatBid) = 0 THEN "ErrInvalidRespNoSeatBids"
    ELSE IF \E s \in 1..Len(r.SeatBid) : r.SeatBid[s].Group = 1
    THEN "ErrResponseInvalidGroup"
    ELSE ""

\* A *adresponse.BidResponse as an adtype.Responser.
AsResponser(r) ==
    [kind |-> "bid", req |-> r.Req.ID, err |-> Validate(r), ads |-> r.ads, bid |-> r]

NoResponse ==
    [kind |-> "none", req |-> "", err |-> "", ads |-> << >>, bid |-> NoResp]

NoRequest == Request(FALSE, FALSE, FALSE)

\* The locals of a task's current call, and what the call has done so far:
\* skips/incs/decs/closes count its calls of IncSkip, errorCounter.Inc,
\* errorCounter.Dec and resp.Close; nobids/successes/errors/latencies those
\* of IncNobid, IncSuccess, IncError and UpdateQueryLatency.
NoLocals ==
    [req |-> NoRequest, nextOk |-> TRUE, now |-> 0, last |-> 0, rps |-> 0,
     rpsAtLoad |-> 0, loaded |-> FALSE, got |-> FALSE, ret |-> FALSE,
     skips |-> 0, dispatched |-> FALSE, reply |-> NoReply, parsed |-> FALSE,
     parseErr |-> "", response |-> NoResponse,
     incs |-> 0, decs |-> 0, closes |-> 0, nobids |-> 0, successes |-> 0,
     errors |-> 0, latencies |-> 0]

\* The source configuration (admodels.RTBSource: the fields driver.go reads).
Source(rps, errorsIgnore, trace, requestType, maxBid) ==
    [ID |-> 1, RPS |-> rps, RequestType |-> requestType, MaxBid |-> maxBid,
     Options |-> [ErrorsIgnore |-> errorsIgnore, Trace |-> trace]]

\* newDriver: the driver after construction, before any call.
DriverStart(src, reqs, reps, tasks, calls) ==
    /\ clock = Second
    /\ lastRequestTime = 0
    /\ rpsCurrent = 0
    /\ errorCounter = [inc |-> 0, dec |-> 0]
    /\ latencyMetrics = [skip |-> 0, nobid |-> 0, success |-> 0, error |-> 0,
                         timeout |-> 0, begin |-> 0, latency |-> 0]
    /\ source = src
    /\ requests = reqs
    /\ replies = reps
    /\ procs = tasks
    /\ budget = calls
    /\ pc = [p \in tasks |-> "idle"]
    /\ loc = [p \in tasks |-> NoLocals]
    /\ hist = << >>
    /\ resets = 0

NormOff == nIn = << >> /\ nStage = "off" /\ nOut = << >>

BuildOff == bIn = << >> /\ bPos = << >> /\ bOut = << >>

ProcOff == pIn = << >> /\ pPos = 0 /\ pLog = << >>

InitNorm ==
    /\ \E mb \in {0, FilterMaxBid} :
          DriverStart(Source(0, 0, 0, "json", mb), {}, {}, {}, 0)
    /\ \E sec \in BOOLEAN, adm \in {SafeMarkup, InsecureMarkup},
          n \in 1..MaxTotalBids :
         \E imps \in [1..n -> NormImpIDs], prices \in [1..n -> 1..MaxPrice],
            cuts \in [1..n -> BOOLEAN] :
            /\ cuts[1]
            /\ nIn = [req |-> BidRequest(sec),
                      wire |-> WireResponse(
                         SeatsOf([k \in 1..n |->
                                    MkBid(k, imps[k], prices[k], adm, NoExt)],
                                 cuts, n))]
    /\ nStage = "decoded"
    /\ nOut = [seats |-> << >>, err |-> "", resp |-> NoResp]
    /\ BuildOff /\ ProcOff

\* `if request.IsSecure() { ... }`
NormSecure ==
    /\ nStage = "decoded"
    /\ IF SecureViolation(nIn.req, nIn.wire.SeatBid)
       THEN /\ nStage' = "rejected"
            /\ nOut' = [nOut EXCEPT !.err = "ErrResponseAreNotSecure"]
       ELSE /\ nStage' = "checked"
            /\ nOut' = nOut
    /\ UNCHANGED << nIn, driverVars, bIn, bPos, bOut, pIn, pPos, pLog >>

\* `if d.source.MaxBid > 0 { ... }`
NormFilter ==
    /\ nStage = "checked"
    /\ LET f == MaxBidFilter(nIn.wire.SeatBid, source.MaxBid)
       IN  /\ nStage' = IF f.panic THEN "fault" ELSE "filtered"
           /\ nOut' = [nOut EXCEPT !.seats = f.SeatBid]
    /\ UNCHANGED << nIn, driverVars, bIn, bPos, bOut, pIn, pPos, pLog >>

\* `if len(bidResp.SeatBid) == 0 { return nil, nil }`, else build the
\* response and Prepare it.
NormPrepare ==
    /\ nStage = "filtered"
    /\ IF Len(nOut.seats) = 0
       THEN /\ nStage' = "empty"
            /\ nOut' = nOut
       ELSE /\ nStage' = "prepared"
            /\ \E perm \in Perms(OptimalCount(nOut.seats)) :
                  nOut' = [nOut EXCEPT !.resp =
                     Prepare(NewBidResponse(nIn.req, nIn.wire, nOut.seats), perm)]
    /\ UNCHANGED << nIn, driverVars, bIn, bPos, bOut, pIn, pPos, pLog >>

NextNorm == NormSecure \/ NormFilter \/ NormPrepare

SpecNorm == InitNorm /\ [][NextNorm]_vars

---------------------------------------------------------------------------
(* Claims about the normalizer                                             *)

\* Occurrences of the bid with this ID among the bids of a seat.
Occurrences(seat, id) ==
    Cardinality({ j \in 1..Len(seat.Bid) : seat.Bid[j].ID = id })

\* C9 (as claimed): with source.MaxBid = M > 0, after the price-limit filter
\* no surviving bid has price > M, no surviving seat is empty, and every
\* bid of the reply with price <= M survives exactly once, in its own seat.
C9_MaxBidPostcondition ==
    (nStage = "filtered" /\ source.MaxBid > 0) =>
        LET M   == source.MaxBid
            in  == nIn.wire.SeatBid
            out == nOut.seats
        IN  /\ \A bid \in BidsOf(out) : bid.Price <= M
            /\ \A s \in 1..Len(out) : Len(out[s].Bid) > 0
            /\ \A s \in 1..Len(in) : \A j \in 1..Len(in[s].Bid) :
                  in[s].Bid[j].Price <= M =>
                     \A t \in 1..Len(out) :
                        Occurrences(out[t], in[s].Bid[j].ID)
                           = IF out[t].Seat = in[s].Seat THEN 1 ELSE 0
            /\ \A s \in 1..Len(in) :
                  (\E j \in 1..Len(in[s].Bid) : in[s].Bid[j].Price <= M) =>
                     Cardinality({ t \in 1..Len(out) : out[t].Seat = in[s].Seat }) = 1

\* The first bid, in seat order then bid order, among the bids of highest
\* price for an impression id.
FirstBest(flat, impid) ==
    LET mine == { k \in 1..Len(flat) : flat[k].ImpID = impid }
        best == { k \in mine : \A m \in mine : flat[m].Price <= flat[k].Price }
    IN  flat[CHOOSE k \in best : \A m \in best : k <= m]

\* C10: OptimalBids() holds exactly one bid for each impression id of the
\* seat-bids and none for other ids; that bid is a bid of the response for
\* that id whose price is >= the price of every other bid for the id, and
\* among bids of equal highest price it is the first in seat order then bid
\* order.
C10_OptimalBids ==
    nStage = "prepared" =>
        LET flat == FlatBids(nOut.resp.SeatBid)
            opt  == nOut.resp.optimalBids
            ids  == { flat[k].ImpID : k \in 1..Len(flat) }
        IN  /\ { opt[i].ImpID : i \in 1..Len(opt) } = ids
            /\ Len(opt) = Cardinality(ids)
            /\ \A i \in 1..Len(opt) :
                  /\ \E k \in 1..Len(flat) : flat[k] = opt[i]
                  /\ \A k \in 1..Len(flat) :
                        flat[k].ImpID = opt[i].ImpID => flat[k].Price <= opt[i].Price
                  /\ opt[i] = FirstBest(flat, opt[i].ImpID)

\* Three bids for one impression id priced low, high, middle (scenario S3)
\* with the high one selected.
C10_Witness_S3 ==
    /\ nStage = "prepared"
    /\ LET flat == FlatBids(nOut.resp.SeatBid)
           opt  == nOut.resp.optimalBids
       IN  /\ Len(flat) = 3
           /\ flat[1].ImpID = flat[2].ImpID /\ flat[2].ImpID = flat[3].ImpID
           /\ flat[1].Price = 1 /\ flat[2].Price = 3 /\ flat[3].Price = 2
           /\ Len(opt) = 1 /\ opt[1].ID = 2

---------------------------------------------------------------------------
(* The driver: driver.Test, one action per access to shared state          *)

IncMetric(m, name) == [m EXCEPT ![name] = @ + 1]

\* Entry of Test: `d.source.RPS > 0`, then `ErrorsIgnore == 0 &&
\* !d.errorCounter.Next()`.  The answer of Next() is the counter's own
\* adaptive rule and is left open.
TestCall(p) ==
    /\ pc[p] = "idle"
    /\ budget > 0
    /\ budget' = budget - 1
    /\ \E req \in requests, next \in BOOLEAN :
         LET l == [NoLocals EXCEPT !.req = req] IN
         IF source.RPS > 0
         THEN IF source.Options.ErrorsIgnore = 0 /\ ~next
              THEN /\ loc' = [loc EXCEPT ![p] = [l EXCEPT !.nextOk = FALSE,
                                                          !.skips = 1,
                                                          !.ret = FALSE]]
                   /\ latencyMetrics' = IncMetric(latencyMetrics, "skip")
                   /\ pc' = [pc EXCEPT ![p] = "t_done"]
              ELSE /\ loc' = [loc EXCEPT ![p] = l]
                   /\ latencyMetrics' = latencyMetrics
                   /\ pc' = [pc EXCEPT ![p] = "t_now"]
         ELSE /\ loc' = [loc EXCEPT ![p] = l]
              /\ latencyMetrics' = latencyMetrics
              /\ pc' = [pc EXCEPT ![p] = "t_src"]
    /\ UNCHANGED << clock, lastRequestTime, rpsCurrent, errorCounter, source,
                    requests, replies, procs, hist, resets, pureVars >>

\* now := fasttime.UnixTimestampNano()
TestNow(p) ==
    /\ pc[p] = "t_now"
    /\ loc' = [loc EXCEPT ![p].now = clock]
    /\ pc' = [pc EXCEPT ![p] = "t_load"]
    /\ UNCHANGED << clock, lastRequestTime, rpsCurrent, errorCounter,
                    latencyMetrics, source, requests, replies, procs, budget,
                    hist, resets, pureVars >>

\* The branch `now - last >= uint64(time.Second)` takes.
ResetDue(now, last) == Elapsed(now, last) >= Second

\* `now-atomic.LoadUint64(&d.lastRequestTime) >= uint64(time.Second)`
TestLoad(p) ==
    /\ pc[p] = "t_load"
    /\ loc' = [loc EXCEPT ![p].last = lastRequestTime,
                          ![p].rpsAtLoad = rpsCurrent,
                          ![p].loaded = TRUE]
    /\ pc' = [pc EXCEPT ![p] =
                IF ResetDue(loc[p].now, lastRequestTime) THEN "t_store" ELSE "t_get"]
    /\ UNCHANGED << clock, lastRequestTime, rpsCurrent, errorCounter,
                    latencyMetrics, source, requests, replies, procs, budget,
                    hist, resets, pureVars >>

\* atomic.StoreUint64(&d.lastRequestTime, now)
TestStore(p) ==
    /\ pc[p] = "t_store"
    /\ lastRequestTime' = loc[p].now
    /\ resets' = resets + 1
    /\ pc' = [pc EXCEPT ![p] = "t_set"]
    /\ UNCHANGED << clock, rpsCurrent, errorCounter, latencyMetrics, source,
                    requests, replies, procs, budget, loc, hist, pureVars >>

\* d.rpsCurrent.Set(0)
TestSet(p) ==
    /\ pc[p] = "t_set"
    /\ rpsCurrent' = 0
    /\ pc' = [pc EXCEPT ![p] = "t_src"]
    /\ UNCHANGED << clock, lastRequestTime, errorCounter, latencyMetrics,
                    source, requests, replies, procs, budget, loc, hist,
                    resets, pureVars >>

\* The limit check with an off-by-one comparison.
LimitReached_Strict(rps, limit) == rps > limit

\* The limit check on the value rpsCurrent.Get() returned.
LimitReached(rps, limit) == rps >= limit

\* `else if d.rpsCurrent.Get() >= int64(d.source.RPS)`
TestGet(p) ==
    /\ pc[p] = "t_get"
    /\ IF LimitReached(rpsCurrent, source.RPS)
       THEN /\ loc' = [loc EXCEPT ![p].rps = rpsCurrent, ![p].got = TRUE,
                                  ![p].skips = @ + 1, ![p].ret = FALSE]
            /\ latencyMetrics' = IncMetric(latencyMetrics, "skip")
            /\ pc' = [pc EXCEPT ![p] = "t_done"]
       ELSE /\ loc' = [loc EXCEPT ![p].rps = rpsCurrent, ![p].got = TRUE]
            /\ latencyMetrics' = latencyMetrics
            /\ pc' = [pc EXCEPT ![p] = "t_src"]
    /\ UNCHANGED << clock, lastRequestTime, rpsCurrent, errorCounter, source,
                    requests, replies, procs, budget, hist, resets, pureVars >>

\* `if !d.source.Test(request)`, and `return true`
TestSource(p) ==
    /\ pc[p] = "t_src"
    /\ IF ~loc[p].req.Accept
       THEN /\ loc' = [loc EXCEPT ![p].skips = @ + 1, ![p].ret = FALSE]
            /\ latencyMetrics' = IncMetric(latencyMetrics, "skip")
       ELSE /\ loc' = [loc EXCEPT ![p].ret = TRUE]
            /\ latencyMetrics' = latencyMetrics
    /\ pc' = [pc EXCEPT ![p] = "t_done"]
    /\ UNCHANGED << clock, lastRequestTime, rpsCurrent, errorCounter, source,
                    requests, replies, procs, budget, hist, resets, pureVars >>

\* Test returns to the caller, which calls Bid when admitted
\* (`if driver.Test(request) { response := driver.Bid(request) }`).
TestReturn(p) ==
    /\ pc[p] = "t_done"
    /\ hist' = Append(hist, [now |-> loc[p].now, ret |-> loc[p].ret,
                             clean |-> loc[p].nextOk /\ loc[p].req.Accept,
                             skip |-> latencyMetrics.skip])
    /\ pc' = [pc EXCEPT ![p] = IF loc[p].ret THEN "admitted" ELSE "idle"]
    /\ loc' = [loc EXCEPT ![p] = IF loc[p].ret THEN @ ELSE NoLocals]
    /\ UNCHANGED << clock, lastRequestTime, rpsCurrent, errorCounter,
                    latencyMetrics, source, requests, replies, procs, budget,
                    resets, pureVars >>

\* The clock advances.
Tick ==
    /\ clock < Second + MaxTicks
    /\ clock' = clock + 1
    /\ UNCHANGED << lastRequestTime, rpsCurrent, errorCounter, latencyMetrics,
                    source, requests, replies, procs, budget, pc, loc, hist,
                    resets, pureVars >>

---------------------------------------------------------------------------
(* The driver: driver.Bid, split at the HTTP round trip                    *)

\* The no-content test against http.StatusResetContent.
IsNoContent_ResetContent(status) == status = 205

\* `resp.StatusCode() == http.StatusNoContent`
IsNoContent(status) == status = 204

\* `resp.StatusCode() != http.StatusOK`, negated
IsOK(status) == status = 200

\* processHTTPReponse(resp, err): the calls it makes, as counts.
processHTTPReponse(hasResp, status, err) ==
    IF err # "" \/ ~hasResp \/ (status # 200 /\ status # 204)
    THEN [incs |-> 1, decs |-> 0, errors |-> 1,
          timeouts |-> IF err = "ErrHandlerTimeout" THEN 1 ELSE 0]
    ELSE [incs |-> 0, decs |-> 1, errors |-> 0, timeouts |-> 0]

NoEffect == [incs |-> 0, decs |-> 0, errors |-> 0, timeouts |-> 0]

\* The response variable of Bid after `if res, err := d.unmarshal(...);
\* d.source.Options.Trace != 0 && err != nil {...} else if res != nil {...}`;
\* NoResponse stands for nil.
ResponseOfUnmarshal(req, src, u) ==
    IF src.Options.Trace # 0 /\ u.kind = "err" THEN NewErrorResponse(req, u.err)
    ELSE IF u.kind = "resp" THEN AsResponser(u.resp)
    ELSE NoResponse

\* Bid from the return of netClient.Do on: the response returned, and the
\* calls made on the error counter, the metrics and the HTTP response.
BidAfterDo(req, src, reply, perm) ==
    LET base == [response |-> NoResponse, parsed |-> FALSE, parseErr |-> "",
                 panic |-> FALSE,
                 effect |-> NoEffect, nobids |-> 0, successes |-> 0,
                 closes |-> 0, latencies |-> 1]
    IN
    IF reply.Err # ""
    THEN [base EXCEPT !.effect = processHTTPReponse(reply.HasResp, reply.Status, reply.Err),
                      !.response = NewErrorResponse(req, reply.Err)]
    ELSE IF ~reply.HasResp
    THEN [base EXCEPT !.panic = TRUE]      \* resp.StatusCode() on a nil response
    ELSE IF IsNoContent(reply.Status)
    THEN [base EXCEPT !.nobids = 1,
                      !.response = NewErrorResponse(req, "ErrNoCampaignsStatus")]
    ELSE IF ~IsOK(reply.Status)
    THEN [base EXCEPT !.effect = processHTTPReponse(TRUE, reply.Status, ""),
                      !.response = NewErrorResponse(req, "ErrInvalidResponseStatus")]
    ELSE LET Counted(response) == response # NoResponse /\ response.err = ""
             Returned(u, response) ==
                 [base EXCEPT
                     !.parsed    = TRUE,
                     !.parseErr  = u.err,
                     !.successes = IF Counted(response) /\ Len(response.ads) > 0
                                   THEN 1 ELSE 0,
                     !.nobids    = IF Counted(response) /\ Len(response.ads) = 0
                                   THEN 1 ELSE 0,
                     !.effect    = processHTTPReponse(TRUE, reply.Status, ""),
                     !.response  = IF response = NoResponse
                                   THEN NewEmptyResponse(req, "") ELSE response,
                     !.closes    = 1]
             Parsed(u) ==
                 IF u.kind = "panic"
                 THEN [base EXCEPT !.panic = TRUE, !.parsed = TRUE, !.closes = 1]
                 ELSE Returned(u, ResponseOfUnmarshal(req, src, u))
         IN  Parsed(unmarshal(req, src, reply.Body, perm))

\* The orders of the optimal-bid map that matter for this reply.
BidPermCount(req, src, reply) ==
    IF /\ reply.Err = "" /\ reply.HasResp /\ reply.Status = 200
       /\ DecodeError(src, reply.Body) = ""
       /\ ~SecureViolation(req, reply.Body.Wire.SeatBid)
       /\ ~MaxBidFilter(reply.Body.Wire.SeatBid, src.MaxBid).panic
    THEN OptimalCount(MaxBidFilter(reply.Body.Wire.SeatBid, src.MaxBid).SeatBid)
    ELSE 0

\* Bid up to the dispatch: beginTime, rpsCurrent.Inc(1), BeginQuery,
\* d.request(request); a request that does not build returns at once.
BidBegin(p) ==
    /\ pc[p] = "admitted"
    /\ rpsCurrent' = rpsCurrent + 1
    /\ latencyMetrics' = IncMetric(latencyMetrics, "begin")
    /\ IF loc[p].req.WireValid
       THEN /\ pc' = [pc EXCEPT ![p] = "b_http"]
            /\ loc' = loc
       ELSE /\ pc' = [pc EXCEPT ![p] = "b_done"]
            /\ loc' = [loc EXCEPT ![p].response =
                          NewErrorResponse(loc[p].req, "ErrValidate")]
    /\ UNCHANGED << clock, lastRequestTime, errorCounter, source, requests,
                    replies, procs, budget, hist, resets, pureVars >>

\* netClient.Do returns and Bid runs to its end.
BidEnd(p) ==
    /\ pc[p] = "b_http"
    /\ \E reply \in replies :
       \E perm \in Perms(BidPermCount(loc[p].req, source, reply)) :
       \E b \in { BidAfterDo(loc[p].req, source, reply, perm) } :
         /\ loc' = [loc EXCEPT ![p].dispatched = TRUE,
                               ![p].reply = reply,
                               ![p].parsed = b.parsed,
                               ![p].parseErr = b.parseErr,
                               ![p].response = b.response,
                               ![p].incs = b.effect.incs,
                               ![p].decs = b.effect.decs,
                               ![p].errors = b.effect.errors,
                               ![p].nobids = b.nobids,
                               ![p].successes = b.successes,
                               ![p].closes = b.closes,
                               ![p].latencies = b.latencies]
         /\ errorCounter' = [inc |-> errorCounter.inc + b.effect.incs,
                             dec |-> errorCounter.dec + b.effect.decs]
         /\ latencyMetrics' =
               [latencyMetrics EXCEPT !.latency = @ + b.latencies,
                                      !.nobid   = @ + b.nobids,
                                      !.success = @ + b.successes,
                                      !.error   = @ + b.effect.errors,
                                      !.timeout = @ + b.effect.timeouts]
         /\ pc' = [pc EXCEPT ![p] = IF b.panic THEN "b_panic" ELSE "b_done"]
    /\ UNCHANGED << clock, lastRequestTime, rpsCurrent, source, requests,
                    replies, procs, budget, hist, resets, pureVars >>

\* Bid has returned its response; the task is free for its next call.
BidReturn(p) ==
    /\ pc[p] = "b_done"
    /\ pc' = [pc EXCEPT ![p] = "idle"]
    /\ loc' = [loc EXCEPT ![p] = NoLocals]
    /\ UNCHANGED << clock, lastRequestTime, rpsCurrent, errorCounter,
                    latencyMetrics, source, requests, replies, procs, budget,
                    hist, resets, pureVars >>

Next ==
    \/ \E p \in procs : TestCall(p)
    \/ \E p \in procs : TestNow(p)
    \/ \E p \in procs : TestLoad(p)
    \/ \E p \in procs : TestStore(p)
    \/ \E p \in procs : TestSet(p)
    \/ \E p \in procs : TestGet(p)
    \/ \E p \in procs : TestSource(p)
    \/ \E p \in procs : TestReturn(p)
    \/ \E p \in procs : BidBegin(p)
    \/ \E p \in procs : BidEnd(p)
    \/ \E p \in procs : BidReturn(p)
    \/ Tick

---------------------------------------------------------------------------
(* Specifications                                                          *)

HiPrice == FilterMaxBid + 1

\* Reply bodies: what a partner may send with status 200.
OneBannerBid == << SeatBid(1, << MkBid(1, "i1_b", 1, SafeMarkup, NoExt) >>) >>

BidBodies ==
    { Body("malformed", << >>),
      Body("json+trailing", OneBannerBid),
      Body("json", OneBannerBid),
      Body("json", << SeatBid(1, << MkBid(1, "i1_b", 1, InsecureMarkup, NoExt) >>) >>),
      Body("json", << SeatBid(1, << MkBid(1, "i1_b", 1, SafeMarkup, NoExt) >>),
                      SeatBid(2, << MkBid(2, "i3_n", 1, << "{native", "https://", "x" >>, NoExt),
                                    MkBid(3, "i1_b", 2, InsecureMarkup, NoExt) >>) >>),
      Body("json", << SeatBid(1, << MkBid(1, "i2_d", 1, EmptyStr,
                                          DirectURLExt(<< "http://", "x" >>)) >>) >>),
      Body("json", << SeatBid(1, << MkBid(1, "i2_d", 1, EmptyStr,
                                          DirectURLExt(<< "https://", "x" >>)) >>) >>),
      Body("json", << SeatBid(1, << MkBid(1, "i2_d", 1,
                         << "<?xml", "<url>", "https://", "x", "</url>" >>, NoExt) >>) >>),
      Body("json", << SeatBid(1, << MkBid(1, "i1_b", HiPrice, SafeMarkup, NoExt) >>) >>),
      Body("json", << SeatBid(1, << MkBid(1, "i1_b", HiPrice, SafeMarkup, NoExt),
                                    MkBid(2, "i1_b", HiPrice, SafeMarkup, NoExt) >>) >>),
      Body("json", << [SeatBid(1, << MkBid(1, "i1_b", 1, SafeMarkup, NoExt) >>)
                          EXCEPT !.Group = 1] >>),
      Body("json", << SeatBid(1, << MkBid(1, "zz", 1, SafeMarkup, NoExt) >>) >>) }

StatusReplies == { Reply("", TRUE, st, NoBody) : st \in {204, 404, 500} }

ErrorReplies ==
    { Reply("ErrTransport", FALSE, 0, NoBody),
      Reply("ErrHandlerTimeout", FALSE, 0, NoBody),
      Reply("ErrTransport", TRUE, 200, NoBody) }

BidReplies ==
    StatusReplies \cup ErrorReplies \cup { Reply("", TRUE, 200, b) : b \in BidBodies }

\* The replies of the runs that are about admission.
FewReplies ==
    { Reply("", TRUE, 204, NoBody), Reply("", TRUE, 200, Body("json", OneBannerBid)) }

RequestTypes == {"undefined", "json", "xml", "protobuff", "postform", "plain"}

\* Concurrent callers of Test and Bid on one driver.
Init ==
    /\ \E rps \in 0..MaxRPS, ei \in {0, 1} :
          DriverStart(Source(rps, ei, 0, "json", 0),
                      { Request(FALSE, acc, TRUE) : acc \in BOOLEAN },
                      { Reply("", TRUE, 204, NoBody) }, 1..NProcs, MaxCalls)
    /\ NormOff /\ BuildOff /\ ProcOff

Spec == Init /\ [][Next]_vars

\* One caller: the calls follow one another.
InitSeq ==
    /\ \E rps \in 1..MaxRPS, ei \in {0, 1} :
          DriverStart(Source(rps, ei, 0, "json", 0),
                      { Request(FALSE, acc, TRUE) : acc \in BOOLEAN },
                      FewReplies, {1}, MaxSeqCalls)
    /\ NormOff /\ BuildOff /\ ProcOff

SpecSeq == InitSeq /\ [][Next]_vars

\* One caller, over the source options, the requests and the replies.
InitBid ==
    /\ \E rps \in {0, 1}, trace \in {0, 1}, rt \in RequestTypes,
          mb \in {0, FilterMaxBid} :
          DriverStart(Source(rps, 0, trace, rt, mb),
                      { Request(sec, TRUE, valid) : sec \in BOOLEAN, valid \in BOOLEAN },
                      BidReplies, {1}, MaxBidCalls)
    /\ NormOff /\ BuildOff /\ ProcOff

SpecBid == InitBid /\ [][Next]_vars

---------------------------------------------------------------------------
(* Claims about admission                                                  *)

\* The calls of Test that returned true after reading the clock in the
\* window of one second that starts at w.
AdmittedIn(w) ==
    { i \in 1..Len(hist) : hist[i].ret /\ hist[i].now >= w /\ hist[i].now < w + Second }

\* C1 (as claimed): with source.RPS = R > 0, a healthy or ignored error
\* counter and an accepting source filter, at most R calls of Test return
\* true within any window of one second, in every run where the window was
\* reset once only (so that no two callers race on the reset).
C1_RPSAdmissionBound ==
    (/\ source.RPS > 0
     /\ resets <= 1
     /\ \A i \in 1..Len(hist) : hist[i].clean) =>
        \A w \in 0..(Second + MaxTicks) : Cardinality(AdmittedIn(w)) <= source.RPS

\* C2 (as claimed): Test returns false if and only if (1) RPS > 0,
\* ErrorsIgnore = 0 and errorCounter.Next() returned false, or (2) RPS > 0,
\* less than one second has elapsed since lastRequestTime and rpsCurrent >=
\* RPS, or (3) source.Test rejects the request; a call that returns false
\* increments the skip metric exactly once and a call that returns true
\* leaves it unchanged.
C2_TestDecision ==
    \A p \in procs : pc[p] = "t_done" =>
        LET l  == loc[p]
            c1 == source.RPS > 0 /\ source.Options.ErrorsIgnore = 0 /\ ~l.nextOk
            c2 == /\ source.RPS > 0
                  /\ l.loaded
                  /\ l.now - l.last < Second
                  /\ (IF l.got THEN l.rps ELSE l.rpsAtLoad) >= source.RPS
            c3 == ~l.req.Accept
        IN  /\ ~l.ret <=> (c1 \/ c2 \/ c3)
            /\ l.skips = IF l.ret THEN 0 ELSE 1

\* The first five calls of Test arrived within one second, on a healthy
\* error counter and an accepting filter, with RPS = 2.
FiveInOneSecond ==
    /\ source.RPS = 2
    /\ Len(hist) >= 5
    /\ \A i \in 1..5 : hist[i].clean
    /\ hist[5].now - hist[1].now < Second

---------------------------------------------------------------------------
(* Claims about Bid                                                        *)

\* The reply of the partner is a response with status 200 and no transport
\* error.
StatusOK(l) == l.dispatched /\ l.reply.Err = "" /\ l.reply.HasResp /\ l.reply.Status = 200

\* C4: a transport error makes Bid return an error response with that
\* error; status 204 gives an error response with ErrNoCampaignsStatus and
\* one increment of the no-bid metric; any other status than 200 and 204
\* gives an error response with ErrInvalidResponseStatus; the body is parsed
\* for status 200 only.
C4_BidOutcomeByHTTP ==
    \A p \in procs : (pc[p] = "b_done" /\ loc[p].dispatched) =>
        LET l == loc[p] IN
        /\ l.reply.Err # "" => l.response = NewErrorResponse(l.req, l.reply.Err)
        /\ (l.reply.Err = "" /\ l.reply.Status = 204) =>
              /\ l.response = NewErrorResponse(l.req, "ErrNoCampaignsStatus")
              /\ l.nobids = 1
        /\ (l.reply.Err = "" /\ l.reply.Status \notin {200, 204}) =>
              l.response = NewErrorResponse(l.req, "ErrInvalidResponseStatus")
        /\ l.parsed <=> StatusOK(l)

C4_Witness ==
    \E p \in procs :
        /\ pc[p] = "b_done" /\ loc[p].dispatched
        /\ loc[p].reply.Err = "" /\ loc[p].reply.Status = 204
        /\ loc[p].response.err = "ErrNoCampaignsStatus"
        /\ loc[p].nobids = 1 /\ ~loc[p].parsed

\* C5 (as claimed): a Bid call increments the error counter exactly once on
\* an error outcome (transport error, nil response, a wire request that
\* does not build, a status other than 200 and 204), decrements it exactly
\* once on status 200, leaves it unchanged on status 204, and never changes
\* it by more than one step.
C5_ErrorCounterAccounting ==
    \A p \in procs : pc[p] \in {"b_done", "b_panic"} =>
        LET l       == loc[p]
            failure == \/ ~l.dispatched
                       \/ l.reply.Err # ""
                       \/ ~l.reply.HasResp
                       \/ l.reply.Status \notin {200, 204}
        IN  /\ failure => (l.incs = 1 /\ l.decs = 0)
            /\ StatusOK(l) => (l.incs = 0 /\ l.decs = 1)
            /\ (~failure /\ l.reply.Status = 204) => (l.incs = 0 /\ l.decs = 0)
            /\ l.incs + l.decs <= 1

\* C6 (as claimed): when the status is 200 and the body cannot be decoded
\* (malformed JSON, a request type that is not supported or not defined),
\* Bid returns an error response with the request and the parse error,
\* whatever source.Options.Trace is.
C6_ParseErrorsPropagate ==
    \A p \in procs :
        (/\ pc[p] = "b_done"
         /\ StatusOK(loc[p])
         /\ DecodeError(source, loc[p].reply.Body) # "") =>
            loc[p].response =
                NewErrorResponse(loc[p].req, DecodeError(source, loc[p].reply.Body))

\* C7 (as claimed): for a secure request, when a bid in a seat of the
\* decoded response has "http://" in its AdMarkup, Bid returns a response
\* with no ads and the error ErrResponseAreNotSecure.
C7_SecureViolationFatal ==
    \A p \in procs :
        (/\ pc[p] = "b_done"
         /\ StatusOK(loc[p])
         /\ loc[p].req.Secure
         /\ DecodeError(source, loc[p].reply.Body) = ""
         /\ \E bid \in BidsOf(loc[p].reply.Body.Wire.SeatBid) :
               Contains(bid.AdMarkup, "http://")) =>
            /\ Len(loc[p].response.ads) = 0
            /\ loc[p].response.err = "ErrResponseAreNotSecure"

\* C8 (as claimed): for a secure request, when unmarshal and Prepare give a
\* bid response, no bid of it has "http://" in its AdMarkup and no ad item
\* has "http://" in its markup or its ActionLink.
C8_SecureOutput ==
    \A p \in procs :
        (/\ pc[p] = "b_done"
         /\ loc[p].req.Secure
         /\ loc[p].response.kind = "bid") =>
            LET r == loc[p].response IN
            /\ \A bid \in BidsOf(r.bid.SeatBid) : ~Contains(bid.AdMarkup, "http://")
            /\ \A i \in 1..Len(r.ads) :
                  /\ ~Contains(r.ads[i].Bid.AdMarkup, "http://")
                  /\ ~Contains(r.ads[i].ActionLink, "http://")

---------------------------------------------------------------------------
(* The request builders: openrtbV2Impressions and openrtbV3Impressions     *)

\* JSON text is a sequence of tokens; a quote and a backslash are tokens
\* of their own, every other token stands for text without either.
QUOTE == "\""
BS    == "\\"

\* The concatenation of the texts of a list, sep between neighbours.
RECURSIVE Concat(_, _)
Concat(texts, sep) ==
    IF Len(texts) = 0 THEN << >>
    ELSE IF Len(texts) = 1 THEN texts[1]
    ELSE Concat(SubSeq(texts, 1, Len(texts) \div 2), sep) \o sep
            \o Concat(SubSeq(texts, Len(texts) \div 2 + 1, Len(texts)), sep)

\* A json.Marshal of a string that leaves backslashes as they are.
MarshalString_NoBackslash(s) ==
    LET esc(c) == CASE c = QUOTE -> << BS, QUOTE >>
                    [] c = "<"   -> << BS, "u003c" >>
                    [] OTHER     -> << c >>
    IN  << QUOTE >> \o Concat([i \in 1..Len(s) |-> esc(s[i])], << >>) \o << QUOTE >>

\* json.Marshal of a string: the quoted text with quotes and backslashes
\* escaped and `<` written as \u003c.
MarshalString(s) ==
    LET esc(c) == CASE c = QUOTE -> << BS, QUOTE >>
                    [] c = BS    -> << BS, BS >>
                    [] c = "<"   -> << BS, "u003c" >>
                    [] OTHER     -> << c >>
    IN  << QUOTE >> \o Concat([i \in 1..Len(s) |-> esc(s[i])], << >>) \o << QUOTE >>

\* `"key":` of a JSON object.
JSONKey(k) == << QUOTE, k, QUOTE, ":" >>

\* json.Marshal of one asset of a native request.
MarshalAsset(a) ==
    << "{" >> \o JSONKey("id") \o << ToString(a.ID) >> \o << "," >>
       \o JSONKey("required") \o << ToString(a.Required) >> \o << "," >>
       \o (CASE a.Kind = "img" ->
                  JSONKey("img") \o << "{" >>
                     \o JSONKey("type") \o << a.TypeID >> \o << "," >>
                     \o JSONKey("wmin") \o << ToString(a.WidthMin) >> \o << "," >>
                     \o JSONKey("hmin") \o << ToString(a.HeightMin) >> \o << "," >>
                     \o JSONKey("mimes") \o << "[" >>
                     \o Concat([i \in 1..Len(a.Mimes) |-> MarshalString(a.Mimes[i])],
                               << "," >>)
                     \o << "]", "}" >>
             [] a.Kind = "title" ->
                  JSONKey("title") \o << "{" >>
                     \o JSONKey("len") \o << ToString(a.Length) >> \o << "}" >>
             [] a.Kind = "data" ->
                  JSONKey("data") \o << "{" >>
                     \o JSONKey("type") \o << a.TypeID >> \o << "," >>
                     \o JSONKey("len") \o << ToString(a.Length) >> \o << "}" >>)
       \o << "}" >>

\* json.Marshal(native): version, placement count and assets of the
\* native request.
MarshalNative(n) ==
    << "{" >> \o JSONKey("ver") \o MarshalString(n.Ver) \o << "," >>
       \o JSONKey("plcmtcnt") \o << ToString(n.PlacementCount) >> \o << "," >>
       \o JSONKey("assets") \o << "[" >>
       \o Concat([i \in 1..Len(n.Assets) |-> MarshalAsset(n.Assets[i])], << "," >>)
       \o << "]", "}" >>

\* The image asset of a config asset that is not video-only.
NativeImageAsset(asset) ==
    [ID |-> asset.ID, Required |-> IF asset.Required THEN 1 ELSE 0,
     Kind |-> "img",
     TypeID |-> CASE asset.Name = "main" -> "ImageTypeMain"
                  [] asset.Name = "icon" -> "ImageTypeIcon"
                  [] asset.Name = "logo" -> "ImageTypeLogo"
                  [] OTHER -> "0",
     WidthMin |-> asset.MinWidth, HeightMin |-> asset.MinHeight,
     Mimes |-> asset.AllowedTypes]

\* The field names openrtbV2NativeFieldAsset knows, with their data types.
NativeDataTypes ==
    [description |-> "DataTypeDesc", brandname |-> "DataTypeSponsored",
     phone |-> "DataTypePhone", url |-> "DataTypeDisplayURL",
     rating |-> "DataTypeRating", likes |-> "DataTypeLikes",
     address |-> "DataTypeAddress", sponsored |-> "DataTypeSponsored"]

\* openrtbV2NativeFieldAsset / openrtbV3NativeFieldAsset for a known field.
NativeFieldAsset(field) ==
    IF field.Name = "title"
    THEN [ID |-> field.ID, Required |-> IF field.Required THEN 1 ELSE 0,
          Kind |-> "title", Length |-> field.MaxLength]
    ELSE [ID |-> field.ID, Required |-> IF field.Required THEN 1 ELSE 0,
          Kind |-> "data", TypeID |-> NativeDataTypes[field.Name],
          Length |-> field.MaxLength]

\* openrtbV2NativeAssets / openrtbV3NativeAssets
NativeAssets(format) ==
    LET images == SelectSeq(format.Config.Assets,
                     LAMBDA a : ~a.VideoSupport \/ a.ImageSupport)
        fields == SelectSeq(format.Config.Fields,
                     LAMBDA f : f.Name = "title" \/ f.Name \in DOMAIN NativeDataTypes)
    IN  [i \in 1..Len(images) |-> NativeImageAsset(images[i])]
           \o [i \in 1..Len(fields) |-> NativeFieldAsset(fields[i])]

\* The native request both builders assemble from impression and format.
NativeRequest(imp, format, opts) ==
    [Ver |-> opts.NativeVer, PlacementCount |-> imp.Count,
     Assets |-> NativeAssets(format)]

\* `nil`: a pointer that is not set (a byte slice that is not set is the
\* empty sequence).
Nil == [Nil |-> TRUE]

\* The request serialized, wrapped in {"native": } and encoded once more
\* as a JSON string.
WrapNative(native) ==
    MarshalString(<< "{" >> \o JSONKey("native") \o MarshalNative(native) \o << "}" >>)

\* openrtbV2NativeRequest: the impression's own native request if it has
\* one, else the assembled one.
openrtbV2NativeRequest(imp, format, opts) ==
    WrapNative(IF imp.RTBNativeRequest # Nil THEN imp.RTBNativeRequest
               ELSE NativeRequest(imp, format, opts))

\* openrtbV3NativeRequest: always the assembled one.
openrtbV3NativeRequest(imp, format, opts) ==
    WrapNative(NativeRequest(imp, format, opts))

Max(a, b) == IF a >= b THEN a ELSE b

\* The banner when the format's size is taken as soon as one of the
\* impression's dimensions is missing.
Banner_EitherMissing(imp, format) ==
    LET fromFormat == imp.Width < 1 \/ imp.Height < 1
        w == IF fromFormat THEN format.Width ELSE imp.Width
        h == IF fromFormat THEN format.Height ELSE imp.Height
    IN  [W |-> Max(w, 5), H |-> Max(h, 5),
         WMax |-> IF format.Stretch THEN imp.WidthMax ELSE 0,
         HMax |-> IF format.Stretch THEN imp.HeightMax ELSE 0,
         Pos |-> imp.Pos]

\* The banner object of a banner or proxy format.
Banner(imp, format) ==
    LET fromFormat == imp.Width < 1 /\ imp.Height < 1
        w == IF fromFormat THEN format.Width ELSE imp.Width
        h == IF fromFormat THEN format.Height ELSE imp.Height
    IN  [W |-> Max(w, 5), H |-> Max(h, 5),
         WMax |-> IF format.Stretch THEN imp.WidthMax ELSE 0,
         HMax |-> IF format.Stretch THEN imp.HeightMax ELSE 0,
         Pos |-> imp.Pos]

\* The extension of a direct format: {"type":"pop"}
PopExt == << "{" >> \o JSONKey("type") \o << QUOTE, "pop", QUOTE, "}" >>

\* The wire impression of both versions under common field names
\* (Instl is Interstitial in 3.0, Native.Ver is Native.Version).
WireImpression(req, imp, format, opts, nativeReq, floor) ==
    [ID |-> IDByFormat(imp, format),
     Banner |-> IF format.Kind \in {"banner", "proxy"} THEN Banner(imp, format)
                ELSE Nil,
     Video |-> Nil,
     Native |-> IF format.Kind = "native"
                THEN [Request |-> nativeReq, Ver |-> opts.NativeVer] ELSE Nil,
     Instl |-> IF imp.Direct THEN 1 ELSE 0,
     TagID |-> imp.Target \o "_" \o format.Codename,
     BidFloor |-> Max(floor, opts.BidFloor),
     Secure |-> IF req.Secure THEN 1 ELSE 0,
     Ext |-> IF format.Kind = "direct" THEN PopExt ELSE << >>]

\* The format kinds for which the builders' switch builds an impression.
WireKinds == {"banner", "proxy", "native", "direct"}

\* openrtbV2ImpressionByFormat; Nil for the default branch.
openrtbV2ImpressionByFormat(req, imp, format, opts) ==
    IF format.Kind \notin WireKinds THEN Nil
    ELSE WireImpression(req, imp, format, opts,
                        IF format.Kind = "native"
                        THEN openrtbV2NativeRequest(imp, format, opts) ELSE << >>,
                        imp.BidFloor)

\* openrtbV3ImpressionByFormat; Nil for the default branch.
openrtbV3ImpressionByFormat(req, imp, format, opts) ==
    IF format.Kind \notin WireKinds THEN Nil
    ELSE WireImpression(req, imp, format, opts,
                        IF format.Kind = "native"
                        THEN openrtbV3NativeRequest(imp, format, opts) ELSE << >>,
                        imp.BidFloorCPM)

\* The (impression, format) pairs of a request in the order of the two
\* nested loops.
ImpFormatPairs(req) ==
    Concat([i \in 1..Len(req.Imps) |->
              [k \in 1..Len(req.Imps[i].Formats) |->
                  [imp |-> req.Imps[i], format |-> req.Imps[i].Formats[k]]]],
           << >>)

\* types.Format as the builders read it.
BuildFormat(codename, kind, stretch, size, config) ==
    [Codename |-> codename, Kind |-> kind, Stretch |-> stretch,
     Width |-> size[1], Height |-> size[2], Config |-> config]

NoConfig == [Assets |-> << >>, Fields |-> << >>]

\* The config of a native format: an image asset with the given MIME
\* types, a video-only asset, and a known, a title and an unknown field.
NativeConfig(mimes) ==
    [Assets |-> << [ID |-> 1, Required |-> TRUE, Name |-> "main",
                    MinWidth |-> 50, MinHeight |-> 40, AllowedTypes |-> mimes,
                    ImageSupport |-> TRUE, VideoSupport |-> FALSE],
                   [ID |-> 2, Required |-> FALSE, Name |-> "clip",
                    MinWidth |-> 0, MinHeight |-> 0, AllowedTypes |-> << >>,
                    ImageSupport |-> FALSE, VideoSupport |-> TRUE] >>,
     Fields |-> << [ID |-> 3, Required |-> TRUE, Name |-> "title", MaxLength |-> 25],
                   [ID |-> 4, Required |-> FALSE, Name |-> "rating", MaxLength |-> 0],
                   [ID |-> 5, Required |-> FALSE, Name |-> "color", MaxLength |-> 7] >>]

\* adtype.Impression as the builders read it.
BuildImpression(id, direct, size, floors, native, formats) ==
    [ID |-> id, Direct |-> direct, Width |-> size[1], Height |-> size[2],
     WidthMax |-> 600, HeightMax |-> 500, Pos |-> 1,
     BidFloor |-> floors[1], BidFloorCPM |-> floors[2], Target |-> "zone",
     Count |-> 1, RTBNativeRequest |-> native, Formats |-> formats]

\* A native request an impression brings along.
OwnNativeRequest ==
    [Ver |-> << "1.2" >>, PlacementCount |-> 2,
     Assets |-> << [ID |-> 9, Required |-> 1, Kind |-> "title", Length |-> 90] >>]

InitBuild ==
    /\ DriverStart(Source(0, 0, 0, "json", 0), {}, {}, {}, 0)
    /\ NormOff /\ ProcOff
    /\ \E direct, secure, stretch \in BOOLEAN,
          size \in {<< 0, 0 >>, << 3, 0 >>, << 300, 250 >>},
          fsize \in {<< 0, 0 >>, << 320, 50 >>},
          floors \in {<< 0, 0 >>, << 2, 3 >>},
          native \in {Nil, OwnNativeRequest},
          kinds \in { << "banner" >>, << "direct" >>, << "native" >>, << "video" >>,
                      << "banner", "direct" >>, << "native", "proxy" >> },
          mimes \in { << >>, << << "image/png" >> >>,
                      << << "a", QUOTE >>, << BS, "<" >> >>,
                      << << BS, QUOTE, "<", "b" >> >> },
          filter \in { WireKinds \cup {"video"}, {"banner", "proxy"} },
          minBid \in {0, 1} :
         bIn = [req |->
                  [ID |-> "r1", Secure |-> secure,
                   Imps |->
                     << BuildImpression("i1", direct, size, floors, native,
                          [k \in 1..Len(kinds) |->
                             BuildFormat(kinds[k], kinds[k], stretch, fsize,
                                IF kinds[k] = "native" THEN NativeConfig(mimes)
                                ELSE NoConfig)]),
                        BuildImpression("i2", FALSE, << 0, 0 >>, << 0, 0 >>, Nil,
                          << BuildFormat("banner", "banner", FALSE,
                                         << 320, 50 >>, NoConfig) >>) >>],
                opts |-> [FormatFilter |-> filter, BidFloor |-> minBid,
                          NativeVer |-> << "1.1" >>]]
    /\ bPos = [v2 |-> 0, v3 |-> 0]
    /\ bOut = [v2 |-> << >>, v3 |-> << >>]

\* One turn of the inner loop of openrtbV2Impressions.
BuildV2 ==
    /\ bPos.v2 < Len(ImpFormatPairs(bIn.req))
    /\ \E p \in { ImpFormatPairs(bIn.req)[bPos.v2 + 1] } :
         \E w \in { openrtbV2ImpressionByFormat(bIn.req, p.imp, p.format, bIn.opts) } :
            bOut' = [bOut EXCEPT !.v2 = IF w = Nil THEN @ ELSE Append(@, w)]
    /\ bPos' = [bPos EXCEPT !.v2 = @ + 1]
    /\ UNCHANGED << bIn, driverVars, nIn, nStage, nOut, pIn, pPos, pLog >>

\* One turn of the inner loop of openrtbV3Impressions.
BuildV3 ==
    /\ bPos.v3 < Len(ImpFormatPairs(bIn.req))
    /\ \E p \in { ImpFormatPairs(bIn.req)[bPos.v3 + 1] } :
         \E w \in { openrtbV3ImpressionByFormat(bIn.req, p.imp, p.format, bIn.opts) } :
            bOut' = [bOut EXCEPT !.v3 = IF w = Nil THEN @ ELSE Append(@, w)]
    /\ bPos' = [bPos EXCEPT !.v3 = @ + 1]
    /\ UNCHANGED << bIn, driverVars, nIn, nStage, nOut, pIn, pPos, pLog >>

NextBuild == BuildV2 \/ BuildV3

SpecBuild == InitBuild /\ [][NextBuild]_vars

---------------------------------------------------------------------------
(* The normalizer on replies whose bids vary in their texts, for both      *)
(* variants of Prepare.                                                    *)

\* A request whose impressions carry several formats: a banner/proxy one,
\* a direct-mode one with a direct and a banner format, a native one.
PrepImps ==
    << BuildImpression("i1", FALSE, << 300, 250 >>, << 0, 0 >>, Nil,
          << BuildFormat("b", "banner", FALSE, << 300, 250 >>, NoConfig),
             BuildFormat("p", "proxy", FALSE, << 300, 250 >>, NoConfig) >>),
       BuildImpression("i2", TRUE, << 300, 250 >>, << 0, 0 >>, Nil,
          << BuildFormat("d", "direct", FALSE, << 0, 0 >>, NoConfig),
             BuildFormat("b", "banner", FALSE, << 300, 250 >>, NoConfig) >>),
       BuildImpression("i3", FALSE, << 300, 250 >>, << 0, 0 >>, Nil,
          << BuildFormat("n", "native", FALSE, << 0, 0 >>,
                         NativeConfig(<< << "image/png" >> >>)) >>) >>

PrepRequest == [BidRequest(FALSE) EXCEPT !.Imps = PrepImps]

PrepImpIDs == {"i1_b", "i1_p", "i2_d", "i2_b", "i3_n"}

NativeMarkup == << "{native", "https://", "x" >>

\* The bid that varies in every text it carries.
PrepBids ==
    { [MkBid(1, impid, price, adm, ext) EXCEPT !.AdID = adid, !.NURL = url,
                                               !.BURL = url] :
        impid \in PrepImpIDs, price \in {2, 1200},
        adm \in { EmptyStr, SafeMarkup, NativeMarkup,
                  << "<a>", "${AUCTION_PRICE}" >>, << "<a>", "${AUCTION_AD_ID}" >> },
        ext \in {NoExt, DirectURLExt(<< "https://", "x" >>)},
        adid \in {Str("ad1"), Str("${AUCTION_PRICE}")},
        url \in { EmptyStr, << "https://", "x", "%24%7BAUCTION_PRICE%7D" >>,
                  << "https://", "%zz", "${AUCTION_PRICE}" >> } }
    \cup
    { MkBid(1, impid, 2, EmptyStr, ext) :
        impid \in PrepImpIDs,
        ext \in { BidExt(TRUE, << "https://", "x" >>, << "https://", "y" >>, EmptyStr),
                  BidExt(TRUE, EmptyStr, << "https://", "x" >>, << "https://", "y" >>),
                  BidExt(TRUE, EmptyStr, EmptyStr, << "https://", "y" >>),
                  BidExt(FALSE, EmptyStr, EmptyStr, EmptyStr) } }

\* The plain bids that may follow it.
PlainBids ==
    { MkBid(2, impid, price,
            IF impid = "i3_n" THEN NativeMarkup ELSE SafeMarkup, NoExt) :
        impid \in PrepImpIDs, price \in {2, 1200} }

InitPrep ==
    /\ DriverStart(Source(0, 0, 0, "json", 0), {}, {}, {}, 0)
    /\ \E first \in PrepBids, n \in 1..MaxPrepBids :
         \E rest \in [2..n -> PlainBids], cuts \in [1..n -> BOOLEAN] :
            /\ cuts[1]
            /\ nIn = [req |-> PrepRequest,
                      wire |-> WireResponse(
                         SeatsOf([k \in 1..n |-> IF k = 1 THEN first ELSE rest[k]],
                                 cuts, n))]
    /\ nStage = "decoded"
    /\ nOut = [seats |-> << >>, err |-> "", resp |-> NoResp]
    /\ BuildOff /\ ProcOff

\* The build and Prepare of the inline variant.
NormPrepareInline ==
    /\ nStage = "filtered"
    /\ Len(nOut.seats) > 0
    /\ nStage' = "prepared_inline"
    /\ \E perm \in Perms(OptimalCount(nOut.seats)) :
          nOut' = [nOut EXCEPT !.resp =
             PrepareInline(NewBidResponse(nIn.req, nIn.wire, nOut.seats), perm)]
    /\ UNCHANGED << nIn, driverVars, bIn, bPos, bOut, pIn, pPos, pLog >>

NextPrep == NormSecure \/ NormFilter \/ NormPrepare \/ NormPrepareInline

SpecPrep == InitPrep /\ [][NextPrep]_vars

---------------------------------------------------------------------------
(* ProcessResponseItem                                                     *)

\* The ads a response may hold: bid items of this or another source, with
\* or without a NURL, and items of another kind.
ProcAds ==
    { [Kind |-> kind, SrcID |-> src, NURL |-> nurl] :
        kind \in {"ResponseBidItem", "other"}, src \in {DriverSrc.ID, DriverSrc.ID + 1},
        nurl \in {EmptyStr, << "https://", "win" >>} }

InitProc ==
    /\ DriverStart(Source(0, 0, 0, "json", 0), {}, {}, {}, 0)
    /\ NormOff /\ BuildOff
    /\ \E isNil \in BOOLEAN, err \in {"", "ErrResponseInvalidGroup"},
          n \in 0..MaxAds :
         \E ads \in [1..n -> ProcAds] :
            /\ isNil => (n = 0 /\ err = "")
            /\ pIn = [resp |-> [IsNil |-> isNil, Err |-> err, Ads |-> ads],
                      driverID |-> DriverSrc.ID]
    /\ pPos = 0
    /\ pLog = << >>

\* A ping that leaves out the win event when the send to the wins stream
\* failed.
ProcessAd_StopOnPingError(ad, k, driverID, pingFails) ==
    IF ad.Kind # "ResponseBidItem" \/ ad.SrcID # driverID THEN << >>
    ELSE IF Len(ad.NURL) > 0 /\ pingFails
    THEN << [stream |-> "wins", ad |-> k, what |-> ad.NURL, ok |-> FALSE] >>
    ELSE (IF Len(ad.NURL) > 0
          THEN << [stream |-> "wins", ad |-> k, what |-> ad.NURL, ok |-> TRUE] >>
          ELSE << >>)
         \o << [stream |-> "main", ad |-> k, what |-> Str("SourceWin"), ok |-> TRUE] >>

\* One turn of the loop over response.Ads(): what is sent for ad number k.
ProcessAd(ad, k, driverID, pingFails) ==
    IF ad.Kind # "ResponseBidItem" \/ ad.SrcID # driverID THEN << >>
    ELSE (IF Len(ad.NURL) > 0
          THEN << [stream |-> "wins", ad |-> k, what |-> ad.NURL, ok |-> ~pingFails] >>
          ELSE << >>)
         \o << [stream |-> "main", ad |-> k, what |-> Str("SourceWin"), ok |-> TRUE] >>

\* The entry check: a nil response or one with an error returns at once.
ProcStart ==
    /\ pPos = 0
    /\ pPos' = IF pIn.resp.IsNil \/ pIn.resp.Err # "" THEN -1 ELSE 1
    /\ UNCHANGED << pIn, pLog, driverVars, nIn, nStage, nOut, bIn, bOut, bPos >>

\* One turn of the loop.
ProcAd ==
    /\ pPos \in 1..Len(pIn.resp.Ads)
    /\ \E pingFails \in BOOLEAN :
          pLog' = pLog \o ProcessAd(pIn.resp.Ads[pPos], pPos, pIn.driverID, pingFails)
    /\ pPos' = pPos + 1
    /\ UNCHANGED << pIn, driverVars, nIn, nStage, nOut, bIn, bOut, bPos >>

NextProc == ProcStart \/ ProcAd

SpecProc == InitProc /\ [][NextProc]_vars

---------------------------------------------------------------------------
(* Claims about Prepare and the ad items                                   *)

Prepared == nStage \in {"prepared", "prepared_inline"}

\* C11: after Prepare the item ids of Ads() are pairwise distinct: at most
\* one ad item per input impression, also when an impression carries
\* several formats, each with its own per-format impression id.
C11_OneItemPerImpression ==
    Prepared =>
        \A i, j \in 1..Len(nOut.resp.ads) :
            i # j => nOut.resp.ads[i].ItemID # nOut.resp.ads[j].ItemID

\* C12: every ad item built from a bid has ViewPrice = bid.Price / 1000,
\* ECPM = bid.Price and MaxBidPrice = BidPrice =
\* CalculateNewBidPrice(bid.Price / 1000, item).
C12_ItemPricing ==
    Prepared =>
        \A i \in 1..Len(nOut.resp.ads) :
            LET item == nOut.resp.ads[i]
                ps   == item.PriceScope
            IN  /\ ps.ViewPrice * PerMille = item.Bid.Price * MoneyScale
                /\ ps.ECPM = item.Bid.Price * MoneyScale
                /\ ps.MaxBidPrice = ps.BidPrice
                /\ ps.BidPrice = CalculateNewBidPrice(ps.ViewPrice, item)

\* C13: after Prepare the literal ${AUCTION_PRICE} occurs in none of the
\* AdMarkup, NURL and BURL of any bid of the response.
C13_MacroSubstitution ==
    Prepared =>
        \A bid \in BidsOf(nOut.resp.SeatBid) :
            /\ ~Contains(bid.AdMarkup, "${AUCTION_PRICE}")
            /\ ~Contains(bid.NURL, "${AUCTION_PRICE}")
            /\ ~Contains(bid.BURL, "${AUCTION_PRICE}")

---------------------------------------------------------------------------
(* Claims about the request builders                                       *)

\* The wire impressions the two builders have emitted so far.
Emitted == { bOut.v2[k] : k \in 1..Len(bOut.v2) } \cup { bOut.v3[k] : k \in 1..Len(bOut.v3) }

\* The (impression, format) pairs a wire impression was produced from.
SourcesOf(w) ==
    { p \in { ImpFormatPairs(bIn.req)[k] : k \in 1..Len(ImpFormatPairs(bIn.req)) } :
         IDByFormat(p.imp, p.format) = w.ID }

\* How many of banner, video, native and pop extension a wire impression has.
Populated(w) ==
    (IF w.Banner # Nil THEN 1 ELSE 0) + (IF w.Video # Nil THEN 1 ELSE 0)
       + (IF w.Native # Nil THEN 1 ELSE 0) + (IF Len(w.Ext) > 0 THEN 1 ELSE 0)

\* C14: every wire impression (2.x and 3.0) produced from a direct format
\* has the extension {"type":"pop"}, interstitial = 1 and none of banner,
\* video, native; every emitted wire impression has exactly one of
\* banner, video, native, pop extension populated.
C14_DirectPopExtension ==
    \A w \in Emitted :
        /\ Populated(w) = 1
        /\ \A p \in SourcesOf(w) :
              p.format.Kind = "direct" =>
                 /\ w.Ext = PopExt
                 /\ w.Instl = 1
                 /\ w.Banner = Nil /\ w.Video = Nil /\ w.Native = Nil

\* C15: with a FormatFilter configured, no wire impression is emitted for
\* an (impression, format) pair whose format the predicate rejects.
C15_FormatFilterRestricts ==
    \A w \in Emitted :
        \A p \in SourcesOf(w) : p.format.Kind \in bIn.opts.FormatFilter

\* C16: the 2.x and the 3.0 builder emit the same sequence of wire
\* impressions up to field renaming: what each has emitted so far is a
\* prefix of what the other has.
C16_VersionEquivalence ==
    \A k \in 1..Len(bOut.v2) :
        k <= Len(bOut.v3) => bOut.v2[k] = bOut.v3[k]

\* Reading JSON text back.  BSRun: how many backslashes in a row end at
\* position j of text t.
BSRun(t, j) ==
    IF j < 1 THEN 0
    ELSE CHOOSE k \in 0..j :
            /\ \A m \in 0..(k - 1) : t[j - m] = BS
            /\ (k = j \/ t[j - k] # BS)

\* Token j of t is the second token of an escape sequence.
Escaped(t, j) == BSRun(t, j - 1) % 2 = 1

\* One token of the inside of a string literal read after the state st:
\* [ok, val, esc], esc when the token before opened an escape sequence.
UnquoteStep(st, c) ==
    IF ~st.ok THEN st
    ELSE IF st.esc
         THEN IF c \in {QUOTE, BS}
              THEN [ok |-> TRUE, val |-> Append(st.val, c), esc |-> FALSE]
              ELSE IF c = "u003c"
              THEN [ok |-> TRUE, val |-> Append(st.val, "<"), esc |-> FALSE]
              ELSE [ok |-> FALSE, val |-> << >>, esc |-> FALSE]
    ELSE IF c = BS THEN [st EXCEPT !.esc = TRUE]
    ELSE IF c = QUOTE THEN [ok |-> FALSE, val |-> << >>, esc |-> FALSE]
    ELSE [st EXCEPT !.val = Append(@, c)]

\* The tokens lo..hi of t read in order after the state st.
RECURSIVE UnquoteFold(_, _, _, _)
UnquoteFold(t, lo, hi, st) ==
    IF ~st.ok \/ lo > hi THEN st
    ELSE IF lo = hi THEN UnquoteStep(st, t[lo])
    ELSE UnquoteFold(t, (lo + hi) \div 2 + 1, hi,
                     UnquoteFold(t, lo, (lo + hi) \div 2, st))

\* The value of a JSON string literal: [ok, val].
Unquote(t) ==
    LET Result(st) ==
            IF st.ok /\ ~st.esc THEN [ok |-> TRUE, val |-> st.val]
            ELSE [ok |-> FALSE, val |-> << >>]
    IN  IF Len(t) >= 2 /\ t[1] = QUOTE /\ t[Len(t)] = QUOTE
        THEN Result(UnquoteFold(t, 2, Len(t) - 1,
                                [ok |-> TRUE, val |-> << >>, esc |-> FALSE]))
        ELSE [ok |-> FALSE, val |-> << >>]

\* The position after the literal tokens lits at position i of t, 0 when
\* they are not there.
Lit(t, i, lits) ==
    IF i > 0 /\ i + Len(lits) - 1 <= Len(t) /\ SubSeq(t, i, i + Len(lits) - 1) = lits
    THEN i + Len(lits) ELSE 0

\* The number a token writes, -1 when it writes none.
IntOf(tok) ==
    IF \E n \in 0..MaxNum : ToString(n) = tok
    THEN CHOOSE n \in 0..MaxNum : ToString(n) = tok ELSE -1

\* The closing quote of the string literal that opens at position i, 0
\* when there is none.
StringEnd(t, i) ==
    LET ends == { j \in (i + 1)..Len(t) : t[j] = QUOTE /\ ~Escaped(t, j) }
    IN  IF i < 1 \/ i > Len(t) \/ t[i] # QUOTE \/ ends = {} THEN 0
        ELSE CHOOSE j \in ends : \A x \in ends : j <= x

ParseFail == [ok |-> FALSE, val |-> << >>, next |-> 0]

\* The strings of an array from position i on, after the bracket:
\* [ok, val, next].
RECURSIVE ParseStrings(_, _, _)
ParseStrings(t, i, acc) ==
    IF i < 1 \/ i > Len(t) THEN ParseFail
    ELSE IF t[i] = "]" /\ Len(acc) = 0 THEN [ok |-> TRUE, val |-> acc, next |-> i + 1]
    ELSE LET e == StringEnd(t, i)
             s == IF e = 0 THEN [ok |-> FALSE, val |-> << >>]
                  ELSE Unquote(SubSeq(t, i, e))
         IN  IF ~s.ok \/ e + 1 > Len(t) THEN ParseFail
             ELSE IF t[e + 1] = "]"
                  THEN [ok |-> TRUE, val |-> Append(acc, s.val), next |-> e + 2]
             ELSE IF t[e + 1] = ","
                  THEN ParseStrings(t, e + 2, Append(acc, s.val))
             ELSE ParseFail

\* One asset object at position i: [ok, val, next].
ParseAsset(t, i) ==
    LET a    == Lit(t, i, << "{" >> \o JSONKey("id"))
        b    == Lit(t, a + 1, << "," >> \o JSONKey("required"))
        c    == Lit(t, b + 1, << "," >>)
        id   == IF a > 0 /\ a <= Len(t) THEN IntOf(t[a]) ELSE -1
        req  == IF b > 0 /\ b <= Len(t) THEN IntOf(t[b]) ELSE -1
        ti   == Lit(t, c, JSONKey("title") \o << "{" >> \o JSONKey("len"))
        tEnd == Lit(t, ti + 1, << "}", "}" >>)
        da   == Lit(t, c, JSONKey("data") \o << "{" >> \o JSONKey("type"))
        dl   == Lit(t, da + 1, << "," >> \o JSONKey("len"))
        dEnd == Lit(t, dl + 1, << "}", "}" >>)
        im   == Lit(t, c, JSONKey("img") \o << "{" >> \o JSONKey("type"))
        iw   == Lit(t, im + 1, << "," >> \o JSONKey("wmin"))
        ih   == Lit(t, iw + 1, << "," >> \o JSONKey("hmin"))
        ms   == Lit(t, ih + 1, << "," >> \o JSONKey("mimes") \o << "[" >>)
        mm   == IF ms > 0 THEN ParseStrings(t, ms, << >>) ELSE ParseFail
        iEnd == IF mm.ok THEN Lit(t, mm.next, << "}", "}" >>) ELSE 0
    IN  IF a = 0 \/ b = 0 \/ c = 0 \/ id < 0 \/ req < 0 THEN ParseFail
        ELSE IF ti > 0 /\ tEnd > 0 /\ IntOf(t[ti]) >= 0
             THEN [ok |-> TRUE, next |-> tEnd,
                   val |-> [ID |-> id, Required |-> req, Kind |-> "title",
                            Length |-> IntOf(t[ti])]]
        ELSE IF da > 0 /\ dl > 0 /\ dEnd > 0 /\ IntOf(t[dl]) >= 0
             THEN [ok |-> TRUE, next |-> dEnd,
                   val |-> [ID |-> id, Required |-> req, Kind |-> "data",
                            TypeID |-> t[da], Length |-> IntOf(t[dl])]]
        ELSE IF im > 0 /\ iw > 0 /\ ih > 0 /\ iEnd > 0
                /\ IntOf(t[iw]) >= 0 /\ IntOf(t[ih]) >= 0
             THEN [ok |-> TRUE, next |-> iEnd,
                   val |-> [ID |-> id, Required |-> req, Kind |-> "img",
                            TypeID |-> t[im], WidthMin |-> IntOf(t[iw]),
                            HeightMin |-> IntOf(t[ih]), Mimes |-> mm.val]]
        ELSE ParseFail

\* The asset objects of an array from position i on, after the bracket.
RECURSIVE ParseAssets(_, _, _)
ParseAssets(t, i, acc) ==
    IF i < 1 \/ i > Len(t) THEN ParseFail
    ELSE IF t[i] = "]" /\ Len(acc) = 0 THEN [ok |-> TRUE, val |-> acc, next |-> i + 1]
    ELSE LET a == ParseAsset(t, i)
         IN  IF ~a.ok \/ a.next > Len(t) THEN ParseFail
             ELSE IF t[a.next] = "]"
                  THEN [ok |-> TRUE, val |-> Append(acc, a.val), next |-> a.next + 1]
             ELSE IF t[a.next] = ","
                  THEN ParseAssets(t, a.next + 1, Append(acc, a.val))
             ELSE ParseFail

\* The native request a JSON text writes: [ok, val].
ParseNative(t) ==
    LET a    == Lit(t, 1, << "{" >> \o JSONKey("ver"))
        e    == IF a > 0 THEN StringEnd(t, a) ELSE 0
        ver  == IF e > 0 THEN Unquote(SubSeq(t, a, e)) ELSE [ok |-> FALSE, val |-> << >>]
        b    == Lit(t, e + 1, << "," >> \o JSONKey("plcmtcnt"))
        c    == Lit(t, b + 1, << "," >> \o JSONKey("assets") \o << "[" >>)
        as   == IF c > 0 THEN ParseAssets(t, c, << >>) ELSE ParseFail
        done == IF as.ok THEN Lit(t, as.next, << "}" >>) ELSE 0
    IN  IF ver.ok /\ b > 0 /\ c > 0 /\ as.ok /\ done = Len(t) + 1 /\ IntOf(t[b]) >= 0
        THEN [ok |-> TRUE,
              val |-> [Ver |-> ver.val, PlacementCount |-> IntOf(t[b]),
                       Assets |-> as.val]]
        ELSE [ok |-> FALSE, val |-> << >>]

\* The native request a builder serializes for a pair: the 2.x builder the
\* impression's own one if it has one, else the assembled one.
NativeOf(version, p) ==
    IF version = "v2" /\ p.imp.RTBNativeRequest # Nil THEN p.imp.RTBNativeRequest
    ELSE NativeRequest(p.imp, p.format, bIn.opts)

\* The round trip of one native payload for the request it was made from.
NativeRoundTrip(payload, native) ==
    LET Inner(text) ==
            /\ Len(text) >= 6
            /\ SubSeq(text, 1, 5) = << "{" >> \o JSONKey("native")
            /\ text[Len(text)] = "}"
            /\ SubSeq(text, 6, Len(text) - 1) = MarshalNative(native)
            /\ ParseNative(SubSeq(text, 6, Len(text) - 1))
                  = [ok |-> TRUE, val |-> native]
        Outer(r) == r.ok /\ Inner(r.val)
    IN  Outer(Unquote(payload))

PlainOptions == [FormatFilter |-> WireKinds, BidFloor |-> 0, NativeVer |-> << "1.1" >>]

\* The wire impressions either builder produces from a pair of the
\* normalized request.
WiresOf(p) ==
    { openrtbV2ImpressionByFormat(nIn.req, p.imp, p.format, PlainOptions),
      openrtbV3ImpressionByFormat(nIn.req, p.imp, p.format, PlainOptions) } \ {Nil}

\* C20: for every impression and format that produce a wire impression,
\* the wire impression id is imp.IDByFormat(fmt), the ids of the wire
\* impressions of one request are pairwise distinct, and for a winning bid
\* whose ImpID is that id the normalizer builds the ad item with Imp = imp
\* and RespFormat = fmt.
C20_ImpIDRoundTrip ==
    Prepared =>
        \A k \in 1..Len(ImpFormatPairs(nIn.req)) :
            \A w \in WiresOf(ImpFormatPairs(nIn.req)[k]) :
                /\ w.ID = IDByFormat(ImpFormatPairs(nIn.req)[k].imp,
                                     ImpFormatPairs(nIn.req)[k].format)
                /\ \A m \in 1..Len(ImpFormatPairs(nIn.req)) :
                      m # k => \A v \in WiresOf(ImpFormatPairs(nIn.req)[m]) : v.ID # w.ID
                /\ \A i \in 1..Len(nOut.resp.optimalBids) :
                      nOut.resp.optimalBids[i].ImpID = w.ID =>
                         \E a \in 1..Len(nOut.resp.ads) :
                            /\ nOut.resp.ads[a].Bid = nOut.resp.optimalBids[i]
                            /\ nOut.resp.ads[a].Imp = ImpFormatPairs(nIn.req)[k].imp.ID
                            /\ nOut.resp.ads[a].RespFormat = ImpFormatPairs(nIn.req)[k].format

---------------------------------------------------------------------------
(* Claims about the parse step and the win notifications                   *)

\* C17: with request type JSON the body is decoded; with XML, Protobuf,
\* POST-form-encoded or plain text the parse step fails with the "not
\* supported" error; with any other request type it fails with the
\* "undefined request type" error; in every failing case no bid response
\* is produced.
C17_ParseByRequestType ==
    \A p \in procs :
        (pc[p] = "b_done" /\ StatusOK(loc[p]) /\ loc[p].parsed) =>
            CASE source.RequestType = "json" ->
                    loc[p].parseErr \notin {"ErrNotSupported", "ErrUndefinedRequestType"}
              [] source.RequestType \in {"xml", "protobuff", "postform", "plain"} ->
                    /\ loc[p].parseErr = "ErrNotSupported"
                    /\ loc[p].response.kind # "bid"
              [] OTHER ->
                    /\ loc[p].parseErr = "ErrUndefinedRequestType"
                    /\ loc[p].response.kind # "bid"

\* ProcessResponseItem has returned.
ProcReturned == pPos = -1 \/ pPos = Len(pIn.resp.Ads) + 1

\* The sends of the log without their outcomes.
SendsOf(log) == [i \in 1..Len(log) |-> [stream |-> log[i].stream, ad |-> log[i].ad,
                                         what |-> log[i].what]]

\* The sends the claim has for ad number k.
ClaimedSends(k) ==
    IF pIn.resp.Ads[k].Kind # "ResponseBidItem" \/ pIn.resp.Ads[k].SrcID # pIn.driverID
    THEN << >>
    ELSE (IF pIn.resp.Ads[k].NURL # EmptyStr
          THEN << [stream |-> "wins", ad |-> k, what |-> pIn.resp.Ads[k].NURL] >>
          ELSE << >>)
         \o << [stream |-> "main", ad |-> k, what |-> Str("SourceWin")] >>

\* C18: for a response with no error, for every ResponseBidItem of Ads()
\* whose source id is the driver's, in Ads() order, the NURL is sent to the
\* wins stream iff it is non-empty, and after that exactly one SourceWin
\* event goes to the main stream, also when the NURL send failed; an ad of
\* another source causes no send; a nil response or one with an error
\* causes no sends at all.
C18_WinNotification ==
    /\ pPos = -1 => pLog = << >>
    /\ pPos >= 1 =>
          SendsOf(pLog) = Concat([k \in 1..(pPos - 1) |-> ClaimedSends(k)], << >>)
    /\ ProcReturned =>
          (pPos = -1 <=> (pIn.resp.IsNil \/ pIn.resp.Err # ""))

\* A response without error whose first ad is of another source and whose
\* second ad is this driver's with a NURL: the ping failed, the win event
\* was still sent.
C18_Witness ==
    /\ ProcReturned
    /\ Len(pIn.resp.Ads) = 2
    /\ pIn.resp.Ads[1].Kind = "ResponseBidItem" /\ pIn.resp.Ads[1].SrcID # pIn.driverID
    /\ Len(pLog) = 2
    /\ pLog[1].stream = "wins" /\ ~pLog[1].ok /\ pLog[1].ad = 2
    /\ pLog[2].stream = "main" /\ pLog[2].ad = 2


---------------------------------------------------------------------------
\* lastRequestTime under concurrent Test calls (driver.go:140-147).

\* C25: in every step, lastRequestTime does not decrease, and every call
\* that has loaded lastRequestTime holds a clock reading that is not older
\* than the loaded value, so now - lastRequestTime does not wrap around.
C25_LastRequestTimeMonotone ==
    [][/\ lastRequestTime' >= lastRequestTime
       /\ \A p \in procs :
             loc'[p].loaded => loc'[p].now >= loc'[p].last]_vars


---------------------------------------------------------------------------
\* The max-bid filter loop (driver.go:365-391).

\* C27: with source.MaxBid > 0 the filter loop ends without a run-time
\* fault for every decoded response, and control reaches the check for an
\* empty response.
C27_FilterCompletes ==
    (source.MaxBid > 0 /\ nStage \notin {"decoded", "rejected", "checked"}) =>
        /\ nStage # "fault"
        /\ ~MaxBidFilter(nIn.wire.SeatBid, source.MaxBid).panic


---------------------------------------------------------------------------
\* Release of the HTTP response in Bid (driver.go:181-228).

\* C28: when Bid has ended after netClient.Do returned a response, the
\* response's Close has been called exactly once, whatever the status.
C28_ResponseClosedOnce ==
    \A p \in procs :
        (/\ pc[p] \in {"b_done", "b_panic"}
         /\ loc[p].dispatched
         /\ loc[p].reply.HasResp) => loc[p].closes = 1


---------------------------------------------------------------------------
\* Outcome metrics of one Bid call (driver.go:171-228, 428-444).

\* C30: a Bid call that reached the HTTP dispatch and returned has
\* incremented exactly one of the metrics success, no-bid and error
\* (success only with a returned response that has an ad and no error) and
\* has recorded the query latency once; a call whose wire request did not
\* build has incremented none of the three.
C30_OneOutcomePerRequest ==
    \A p \in procs : pc[p] = "b_done" =>
        LET l == loc[p] IN
        IF l.dispatched
        THEN /\ l.successes + l.nobids + l.errors = 1
             /\ l.latencies = 1
             /\ l.successes = 1 =>
                   (Len(l.response.ads) > 0 /\ l.response.err = "")
        ELSE l.successes = 0 /\ l.nobids = 0 /\ l.errors = 0


---------------------------------------------------------------------------
\* The landing URL of a direct bid without markup (part_002:27-37,
\* response_bid.go:89-98).

\* C23: for a bid of a direct impression that came with empty AdMarkup,
\* Prepare sets AdMarkup to the first non-empty of the extension fields
\* url, landingpage, link, in that order, and the ad item built from the
\* bid has that value as its ActionLink.
C23_DirectURLExtraction ==
    Prepared =>
        \A s \in 1..Len(nIn.wire.SeatBid) :
        \A k \in 1..Len(nIn.wire.SeatBid[s].Bid) :
            LET orig  == nIn.wire.SeatBid[s].Bid[k]
                imp   == ImpressionByIDvariation(nIn.req, orig.ImpID)
                first == IF orig.Ext.URL # EmptyStr THEN orig.Ext.URL
                         ELSE IF orig.Ext.LandingPage # EmptyStr
                         THEN orig.Ext.LandingPage
                         ELSE orig.Ext.Link
                out   == nOut.resp.SeatBid[s].Bid[k]
                ads   == nOut.resp.ads
            IN  (/\ imp # NoImp /\ imp.Direct
                 /\ orig.AdMarkup = EmptyStr /\ orig.Ext.Valid) =>
                    /\ out.AdMarkup = first
                    /\ \A i \in 1..Len(ads) :
                          ads[i].Bid = out => ads[i].ActionLink = first


---------------------------------------------------------------------------
\* Native markup that does not decode (response_bid.go:166-189,
\* native_helpers.go:15-34).

\* The optimal bids of native formats whose markup does not decode.
UndecodedNativeBids ==
    { b \in { nOut.resp.optimalBids[k] : k \in 1..Len(nOut.resp.optimalBids) } :
        LET imp == ImpressionByIDvariation(nIn.req, b.ImpID)
        IN  /\ imp # NoImp /\ ~imp.Direct
            /\ \E f \in 1..Len(imp.Formats) :
                  /\ IDByFormat(imp, imp.Formats[f]) = b.ImpID
                  /\ imp.Formats[f].Kind = "native"
            /\ ~NativeDecodes(b.AdMarkup) }

\* The ad items of r for impressions other than impID.
AdsOfOthers(r, impID) ==
    { r.ads[i] : i \in { k \in 1..Len(r.ads) : r.ads[k].Imp # impID } }

\* The seats with the bids of the given id taken out.
SeatsWithout(seats, id) ==
    [s \in 1..Len(seats) |->
        [seats[s] EXCEPT !.Bid = SelectSeq(@, LAMBDA b : b.ID # id)]]

\* C26: when the optimal bid of a native format has markup that does not
\* decode as a native response, the prepared response has no ad item for
\* that bid, no error is raised, and the ad items of the other impressions
\* are those Prepare builds from the same response without that bid.
C26_NativeDecodeNonFatal ==
    nStage = "prepared" =>
        \A b \in UndecodedNativeBids :
            LET imp   == ImpressionByIDvariation(nIn.req, b.ImpID)
                rest  == SeatsWithout(nOut.seats, b.ID)
                other == Prepare(NewBidResponse(nIn.req, nIn.wire, rest),
                                 [i \in 1..OptimalCount(rest) |-> i])
            IN  /\ nOut.err = ""
                /\ \A i \in 1..Len(nOut.resp.ads) : nOut.resp.ads[i].Bid # b
                /\ AdsOfOthers(nOut.resp, imp.ID) = AdsOfOthers(other, imp.ID)

\* An undecodable native bid wins its impression and another impression
\* gets its ad item.
C26_Witness ==
    /\ nStage = "prepared"
    /\ \E b \in UndecodedNativeBids :
          /\ b.AdMarkup = SafeMarkup
          /\ Len(nOut.resp.optimalBids) = 2
          /\ nOut.resp.optimalBids[1] = b
          /\ Len(nOut.resp.ads) = 1
          /\ nOut.resp.ads[1].Imp # ImpressionByIDvariation(nIn.req, b.ImpID).ID


---------------------------------------------------------------------------
(* The life of a BidResponse after unmarshal: a second Prepare, Release,   *)
(* and reuse of the released object for another reply.                     *)

\* BidResponse.Release with the slices left as they are.
Release_KeepSlices(r) ==
    IF DOMAIN r = {} THEN r ELSE [r EXCEPT !.Req = Nil]

\* BidResponse.Release: nothing for a nil receiver; else the request is
\* detached and ads, optimalBids and the seats are cut to length 0 (the
\* model keeps no extension bytes of the wire response).
Release(r) ==
    IF DOMAIN r = {} THEN r
    ELSE [r EXCEPT !.Req = Nil, !.ads = << >>, !.optimalBids = << >>,
                   !.SeatBid = << >>]

\* A released object gets the request and another decoded reply assigned
\* to its exported fields Req and BidResponse.
Refill(r, req, wire) ==
    [r EXCEPT !.Req = req, !.ID = wire.ID, !.BidID = wire.BidID,
              !.SeatBid = wire.SeatBid]

InitLife ==
    /\ DriverStart(Source(0, 0, 0, "json", 0), {}, {}, {}, 0)
    /\ \E n \in 0..MaxLifeBids :
         \E flat \in [1..n -> PlainBids],
            cuts \in [1..n -> BOOLEAN] :
            /\ n > 0 => cuts[1]
            /\ nIn = [req |-> PrepRequest,
                      wire |-> WireResponse(SeatsOf(flat, cuts, n))]
    /\ nStage = "decoded"
    /\ nOut = [seats |-> << >>, err |-> "", resp |-> NoResp]
    /\ BuildOff /\ ProcOff

\* Prepare is called again on the prepared response.
LifePrepareAgain ==
    /\ nStage = "prepared"
    /\ nStage' = "prepared_again"
    /\ \E perm \in Perms(OptimalCount(nOut.resp.SeatBid)) :
          nOut' = [nOut EXCEPT !.resp = Prepare(nOut.resp, perm)]
    /\ UNCHANGED << nIn, driverVars, bIn, bPos, bOut, pIn, pPos, pLog >>

\* Release on the prepared response.
LifeRelease ==
    /\ nStage = "prepared"
    /\ nStage' = "released"
    /\ nOut' = [nOut EXCEPT !.resp = Release(nOut.resp)]
    /\ UNCHANGED << nIn, driverVars, bIn, bPos, bOut, pIn, pPos, pLog >>

\* Release on the nil response unmarshal returns for an empty reply.
LifeReleaseNil ==
    /\ nStage = "empty"
    /\ nStage' = "released_nil"
    /\ nOut' = [nOut EXCEPT !.resp = Release(nOut.resp)]
    /\ UNCHANGED << nIn, driverVars, bIn, bPos, bOut, pIn, pPos, pLog >>

\* Release on a response that was released before.
LifeReleaseAgain ==
    /\ nStage = "released"
    /\ nStage' = "released_again"
    /\ nOut' = [nOut EXCEPT !.resp = Release(nOut.resp)]
    /\ UNCHANGED << nIn, driverVars, bIn, bPos, bOut, pIn, pPos, pLog >>

\* The released object is filled with another reply and prepared.
LifeRefill ==
    /\ nStage \in {"released", "released_again"}
    /\ nStage' = "refilled"
    /\ \E b \in { MkBid(3, "i1_b", 2, SafeMarkup, NoExt),
                  MkBid(3, "i3_n", 2, NativeMarkup, NoExt) } :
       \E wire \in { WireResponse(<< SeatBid(1, << b >>) >>) } :
       \E perm \in Perms(OptimalCount(wire.SeatBid)) :
          /\ nIn' = [nIn EXCEPT !.wire = wire]
          /\ nOut' = [nOut EXCEPT !.resp =
                         Prepare(Refill(nOut.resp, nIn.req, wire), perm)]
    /\ UNCHANGED << driverVars, bIn, bPos, bOut, pIn, pPos, pLog >>

NextLife ==
    \/ NormSecure
    \/ NormFilter
    \/ NormPrepare
    \/ LifePrepareAgain
    \/ LifeRelease
    \/ LifeReleaseNil
    \/ LifeReleaseAgain
    \/ LifeRefill

SpecLife == InitLife /\ [][NextLife]_vars

---------------------------------------------------------------------------
\* Claims about Release and a repeated Prepare.

\* C29: a second Prepare on a prepared response, with no Release between
\* the two calls, leaves Ads(), OptimalBids() and Count() as the first
\* call left them, so no ad item appears twice.
C29_PrepareIdempotent ==
    [][(nStage = "prepared" /\ nStage' = "prepared_again") =>
          /\ nOut'.resp.ads = nOut.resp.ads
          /\ nOut'.resp.optimalBids = nOut.resp.optimalBids
          /\ nOut'.resp.bidRespBidCount = nOut.resp.bidRespBidCount]_vars

\* C21: Release on a prepared response leaves Request() nil and Ads(),
\* OptimalBids() and the seats empty; Release on a nil response and a
\* second Release change nothing; a released response that is refilled and
\* prepared has the request, the optimal bids and the ad items of a fresh
\* response built from the new reply.
C21_ReleaseDetaches ==
    [][/\ (nStage = "prepared" /\ nStage' = "released") =>
             /\ nOut'.resp.Req = Nil
             /\ nOut'.resp.ads = << >>
             /\ OptimalBids(nOut'.resp, << >>) = << >>
             /\ nOut'.resp.SeatBid = << >>
       /\ nStage' \in {"released_nil", "released_again"} =>
             nOut'.resp = nOut.resp
       /\ nStage' = "refilled" =>
             \E perm \in Perms(OptimalCount(nIn'.wire.SeatBid)) :
                LET fresh == Prepare(NewBidResponse(nIn'.req, nIn'.wire,
                                                    nIn'.wire.SeatBid), perm)
                IN  /\ nOut'.resp.Req = nIn'.req
                    /\ nOut'.resp.ads = fresh.ads
                    /\ nOut'.resp.optimalBids = fresh.optimalBids
                    /\ nOut'.resp.SeatBid = fresh.SeatBid]_vars

\* A response with two ad items was released twice, refilled with a reply
\* of one bid and prepared: it has the one item of the new bid.
C21_Witness ==
    /\ nStage = "refilled"
    /\ Len(Prepare(NewBidResponse(nIn.req, nIn.wire, nOut.seats),
                   [i \in 1..OptimalCount(nOut.seats) |-> i]).ads) = 2
    /\ Len(nOut.resp.ads) = 1
    /\ nOut.resp.ads[1].Bid.ID = 3


---------------------------------------------------------------------------
(* ResponseBidItem.Price (response_bid_item.go:334-343) on items built as  *)
(* newRTBResponse of response_item_test.go builds them.                    *)

\* price.PriceScopeView.PricePerAction, as TestItemPricing fixes it: the
\* view price for the view (impression) action, nothing for a lead.
PricePerAction(scope, action) ==
    IF action \in {"view", "impression"} THEN scope.ViewPrice ELSE 0

\* Price without the check of it.Bid.
Price_NoBidCheck(it, action) ==
    IF it = Nil THEN 0 ELSE PricePerAction(it.PriceScope, action)

\* ResponseBidItem.Price
Price(it, action) ==
    IF it = Nil \/ it.Bid = Nil THEN 0
    ELSE PricePerAction(it.PriceScope, action)

InitItem ==
    /\ DriverStart(Source(0, 0, 0, "json", 0), {}, {}, {}, 0)
    /\ NormOff /\ BuildOff
    /\ \E it \in {Nil} \cup
                 { [ItemID |-> "1", Bid |-> bid,
                    PriceScope |-> [MaxBidPrice |-> MoneyFloat(10, 1),
                                    BidPrice |-> bidPrice,
                                    ViewPrice |-> MoneyFloat(view, 1),
                                    ECPM |-> MoneyFloat(ecpm, 1)]] :
                     bid \in {Nil, [Price |-> 2], [Price |-> 60]},
                     bidPrice \in {0, MoneyFloat(5, 1)},
                     view \in 0..MaxItemPrice,
                     ecpm \in {10, 60} } :
          pIn = [item |-> it, actions |-> << "lead", "view", "impression" >>]
    /\ pPos = 1
    /\ pLog = << >>

\* item.Price(action) for the next action of the list.
ItemPrice ==
    /\ pPos \in 1..Len(pIn.actions)
    /\ pLog' = Append(pLog, [action |-> pIn.actions[pPos],
                             price  |-> Price(pIn.item, pIn.actions[pPos])])
    /\ pPos' = pPos + 1
    /\ UNCHANGED << pIn, driverVars, nIn, nStage, nOut, bIn, bOut, bPos >>

SpecItem == InitItem /\ [][ItemPrice]_vars

\* C22: Price(action) is 0 for a nil item and for an item whose Bid is
\* nil; otherwise it is PriceScope.PricePerAction(action): the ViewPrice of
\* the scope for the view (impression) action and 0 for the lead action,
\* whatever the price of the item's bid.
C22_ItemPricePerAction ==
    \A k \in 1..Len(pLog) :
        LET it == pIn.item
            e  == pLog[k]
        IN  /\ e.action = pIn.actions[k]
            /\ (it = Nil \/ it.Bid = Nil) => e.price = 0
            /\ (it # Nil /\ it.Bid # Nil) =>
                  /\ e.price = PricePerAction(it.PriceScope, e.action)
                  /\ e.action \in {"view", "impression"} =>
                        e.price = it.PriceScope.ViewPrice
                  /\ e.action = "lead" => e.price = 0

\* The item of TestItemPricing: bid price 60, view price 10; the lead
\* price is 0 and the view price 10.
C22_Witness ==
    /\ Len(pLog) = 3
    /\ pIn.item # Nil /\ pIn.item.Bid = [Price |-> 60]
    /\ pIn.item.PriceScope.ViewPrice = MoneyFloat(10, 1)
    /\ pLog[1] = [action |-> "lead", price |-> 0]
    /\ pLog[2] = [action |-> "view", price |-> MoneyFloat(10, 1)]


---------------------------------------------------------------------------
\* The banner of a wire impression (request_v2.go:59-84, part_000:58-83).

\* C24: every wire impression (2.x and 3.0) built from a banner or proxy
\* format has a banner of width max(w, 5) and height max(h, 5), where
\* (w, h) is the impression's size when its width or its height is at
\* least 1 and the format's size otherwise, so both are at least 5; the
\* maximal width and height are the impression's for a stretch format and
\* 0 otherwise.
C24_BannerDimensions ==
    \A w \in Emitted : \A p \in SourcesOf(w) :
        p.format.Kind \in {"banner", "proxy"} =>
            LET own == p.imp.Width >= 1 \/ p.imp.Height >= 1
                bw  == IF own THEN p.imp.Width ELSE p.format.Width
                bh  == IF own THEN p.imp.Height ELSE p.format.Height
            IN  /\ w.Banner # Nil
                /\ w.Banner.W = (IF bw > 5 THEN bw ELSE 5)
                /\ w.Banner.H = (IF bh > 5 THEN bh ELSE 5)
                /\ w.Banner.W >= 5 /\ w.Banner.H >= 5
                /\ w.Banner.WMax = (IF p.format.Stretch THEN p.imp.WidthMax ELSE 0)
                /\ w.Banner.HMax = (IF p.format.Stretch THEN p.imp.HeightMax ELSE 0)

\* Both builders have built the banner of a 3x0 impression with a stretch
\* format of 320x50: 5x5 with the impression's maxima.
C24_Witness ==
    /\ Len(bOut.v2) > 0 /\ Len(bOut.v3) > 0
    /\ \A w \in {bOut.v2[1], bOut.v3[1]} :
          /\ w.Banner # Nil
          /\ w.Banner.W = 5 /\ w.Banner.H = 5
          /\ w.Banner.WMax = 600 /\ w.Banner.HMax = 500
          /\ \E p \in SourcesOf(w) :
                /\ p.imp.Width = 3 /\ p.imp.Height = 0
                /\ p.format.Width = 320 /\ p.format.Stretch

====
